---- MODULE Spec2Model ----
(***************************************************************************)
(* The PDF content-analysis cache of AutoDRP (src/src/utils.py):           *)
(* PDFAnalyzer with its two cache tables, the module-level singleton and   *)
(* the cache introspection functions.                                      *)
(*                                                                         *)
(* Spec      the operations called one after another (each handler is one  *)
(*           atomic action), with the file system changing between calls.  *)
(* ConcSpec  the same handlers run by concurrent callers, one step per     *)
(*           access to shared state (file system, cache tables), while the *)
(*           files stay as they are.                                       *)
(* EnvSpec   ConcSpec with the files changing while calls are under way.   *)
(***************************************************************************)
EXTENDS Integers, Sequences, FiniteSets, TLC

(***************************************************************************)
(* Bounds of the model.                                                    *)
(***************************************************************************)
MaxMtime == 2
MaxCalls == 2
MaxEnv == 1
MaxText == 6
MaxWord == 10
MaxScore == 60
MaxRequests == 4
MaxPages == 11

(***************************************************************************)
(* Paths are sequences of characters, an extension being one element.      *)
(* BASE_DIR stands for "./models".                                         *)
(***************************************************************************)
BASE_DIR == <<"m">>
P1 == <<"m", "/", "a", ".pdf">>
Paths == {P1}
NoId == <<>>
Ids == {NoId, <<"a">>}

\* _pdf_analyzer = None
NoAnalyzer == 0

\* _app_instance = None
NoApp == 0

\* agent.py as imported: no app, the semaphore free, the event not set
NoGlobals ==
  [app_instance |-> NoApp, app_init_semaphore |-> 1, app_init_started |-> FALSE,
   app_init_count |-> 0, app_initialized_event |-> FALSE]

NoQuery == <<>>
Queries == {NoQuery, <<"a">>}
Mtimes == 1..MaxMtime

\* What a file holds: whether PyMuPDFLoader can load it, and the text of its pages.
Corrupt == [readable |-> FALSE, pages |-> <<>>]
NoText == [readable |-> TRUE, pages |-> <<<<>>>>]
TextA == [readable |-> TRUE, pages |-> <<<<"a", "x">>>>]
Contents == {Corrupt, NoText, TextA}
Threads == {1, 2}

NoFile == [exists |-> FALSE, mtime |-> 0, content |-> Corrupt]
Files == {NoFile} \cup [exists : {TRUE}, mtime : Mtimes, content : Contents]

\* the directory BASE_DIR, when it exists
Dir == [exists |-> TRUE, mtime |-> 1, content |-> Corrupt]

\* the files f in the directory BASE_DIR
WithDir(f) == [p \in (DOMAIN f) \cup {BASE_DIR} |-> IF p = BASE_DIR THEN Dir ELSE f[p]]

\* Optional[str] without a path
NoPath == <<>>

VARIABLES
  fs,               \* the documents on disk: path -> file
  analyzer,         \* _pdf_analyzer: NoAnalyzer, or the number of the call that made it
  analysis_cache,   \* PDFAnalyzer._analysis_cache
  documents_cache,  \* PDFAnalyzer._documents_cache
  last,             \* the last call made under Spec and what it returned
  pc,               \* ConcSpec: where each caller is in its handler
  loc,              \* ConcSpec: each caller's local variables
  calls,            \* ConcSpec: the calls started so far
  env,              \* EnvSpec: the file-system changes made so far
  writer,           \* ConcSpec: the caller that wrote the analysis table last
  globals           \* the module-level and class-level variables of agent.py, of
                    \* GlobalStateManager and of MCPManager

vars == <<fs, analyzer, analysis_cache, documents_cache, last,
          pc, loc, calls, env, writer, globals>>

(***************************************************************************)
(* Strings.                                                                *)
(***************************************************************************)
Ord(c) ==
  CASE c = "/" -> 47 [] c = "A" -> 65 [] c = "B" -> 66 [] c = "M" -> 77
    [] c = "a" -> 97 [] c = "b" -> 98 [] c = "m" -> 109 [] c = "x" -> 120
    [] c = " " -> 32 [] c = ".pdf" -> 46 [] c = ".txt" -> 46 [] OTHER -> 0

Lower(s) ==
  [i \in 1..Len(s) |->
     CASE s[i] = "A" -> "a" [] s[i] = "B" -> "b" [] s[i] = "M" -> "m"
       [] OTHER -> s[i]]

StartsWith(s, pre) ==
  /\ Len(pre) <= Len(s)
  /\ SubSeq(s, 1, Len(pre)) = pre

EndsWith(s, suf) ==
  /\ Len(suf) <= Len(s)
  /\ SubSeq(s, Len(s) - Len(suf) + 1, Len(s)) = suf

Contains(s, sub) ==
  \E i \in 0..(Len(s) - Len(sub)) : SubSeq(s, i + 1, i + Len(sub)) = sub

\* str < str of Python: lexicographic by code point
StrLess(s, t) ==
  \E i \in 1..(Len(t)) :
    /\ i <= Len(s) + 1
    /\ SubSeq(s, 1, i - 1) = SubSeq(t, 1, i - 1)
    /\ \/ i = Len(s) + 1
       \/ i <= Len(s) /\ Ord(s[i]) < Ord(t[i])

LastSlash(p) ==
  IF \E i \in 1..Len(p) : p[i] = "/"
    THEN CHOOSE i \in 1..Len(p) :
           p[i] = "/" /\ \A j \in (i + 1)..Len(p) : p[j] # "/"
    ELSE 0

BaseName(p) == SubSeq(p, LastSlash(p) + 1, Len(p))
DirName(p) == SubSeq(p, 1, LastSlash(p) - 1)
Join(d, n) == d \o <<"/">> \o n

(***************************************************************************)
(* Cache tables: finite functions key -> value.                            *)
(***************************************************************************)
\* a write that keeps the value a key already has
Put_keep_first(f, k, v) ==
  [x \in (DOMAIN f) \cup {k} |-> IF x \in DOMAIN f THEN f[x] ELSE v]

\* table[k] = v
Put(f, k, v) == [x \in (DOMAIN f) \cup {k} |-> IF x = k THEN v ELSE f[x]]
Del(f, ks) == [x \in (DOMAIN f) \ ks |-> f[x]]
Empty == <<>>

(***************************************************************************)
(* The file system as PDFAnalyzer reads it.                                *)
(***************************************************************************)
Exists(f, p) == p \in DOMAIN f /\ f[p].exists

NoMtime == 0

\* datetime.now() of the calls made one after another, whose clock is not modelled
Epoch == 0

\* sorted(): the smallest path first
RECURSIVE SortPaths(_)
SortPaths(S) ==
  IF S = {} THEN <<>>
  ELSE LET m == CHOOSE x \in S : \A y \in S \ {x} : StrLess(x, y)
       IN <<m>> \o SortPaths(S \ {m})

\* the files matching "{search_dir}/**/*.pdf" and those matching "{search_dir}/*.pdf"
GlobRecursive(f) ==
  {p \in DOMAIN f : /\ f[p].exists
                    /\ StartsWith(p, BASE_DIR \o <<"/">>)
                    /\ EndsWith(p, <<".pdf">>)}
GlobTop(f) == {p \in GlobRecursive(f) : DirName(p) = BASE_DIR}

\* the sorted list of both patterns' matches: a file both patterns match is listed twice
RECURSIVE Twice(_, _)
Twice(s, D) ==
  IF s = <<>> THEN <<>>
  ELSE (IF Head(s) \in D THEN <<Head(s), Head(s)>> ELSE <<Head(s)>>) \o Twice(Tail(s), D)

\* every file listed, whatever its extension
find_pdf_files_any_ext(f) ==
  LET all == {p \in DOMAIN f : f[p].exists /\ StartsWith(p, BASE_DIR \o <<"/">>)}
  IN IF ~Exists(f, BASE_DIR) THEN <<>> ELSE SortPaths(all)

find_pdf_files(f) ==
  IF ~Exists(f, BASE_DIR) THEN <<>>
  ELSE Twice(SortPaths(GlobRecursive(f)), GlobTop(f))

FirstMatch(files, Match(_)) ==
  IF \E i \in 1..Len(files) : Match(files[i])
    THEN files[CHOOSE i \in 1..Len(files) :
                 Match(files[i]) /\ \A j \in 1..(i - 1) : ~Match(files[j])]
    ELSE NoPath

\* the partial filename match tried before the exact one
auto_find_pdf_partial_first(f, pdf_identifier) ==
  LET pdf_files == find_pdf_files(f)
      Exact(p) == BaseName(p) = pdf_identifier
      Partial(p) == Contains(Lower(BaseName(p)), Lower(pdf_identifier))
      InPath(p) == Contains(Lower(p), Lower(pdf_identifier))
  IN IF pdf_files = <<>> THEN NoPath
     ELSE IF pdf_identifier = NoId THEN pdf_files[1]
     ELSE IF FirstMatch(pdf_files, Partial) # NoPath THEN FirstMatch(pdf_files, Partial)
     ELSE IF FirstMatch(pdf_files, Exact) # NoPath THEN FirstMatch(pdf_files, Exact)
     ELSE FirstMatch(pdf_files, InPath)

\* the last file found returned when no identifier is given
auto_find_pdf_last(f, pdf_identifier) ==
  LET pdf_files == find_pdf_files(f)
      Exact(p) == BaseName(p) = pdf_identifier
      Partial(p) == Contains(Lower(BaseName(p)), Lower(pdf_identifier))
      InPath(p) == Contains(Lower(p), Lower(pdf_identifier))
  IN IF pdf_files = <<>> THEN NoPath
     ELSE IF pdf_identifier = NoId THEN pdf_files[Len(pdf_files)]
     ELSE IF FirstMatch(pdf_files, Exact) # NoPath THEN FirstMatch(pdf_files, Exact)
     ELSE IF FirstMatch(pdf_files, Partial) # NoPath THEN FirstMatch(pdf_files, Partial)
     ELSE FirstMatch(pdf_files, InPath)

auto_find_pdf(f, pdf_identifier) ==
  LET pdf_files == find_pdf_files(f)
      Exact(p) == BaseName(p) = pdf_identifier
      Partial(p) == Contains(Lower(BaseName(p)), Lower(pdf_identifier))
      InPath(p) == Contains(Lower(p), Lower(pdf_identifier))
  IN IF pdf_files = <<>> THEN NoPath
     ELSE IF pdf_identifier = NoId THEN pdf_files[1]
     ELSE IF FirstMatch(pdf_files, Exact) # NoPath THEN FirstMatch(pdf_files, Exact)
     ELSE IF FirstMatch(pdf_files, Partial) # NoPath THEN FirstMatch(pdf_files, Partial)
     ELSE FirstMatch(pdf_files, InPath)

resolve_pdf_path(f, pdf_path) ==
  IF pdf_path = NoId THEN auto_find_pdf(f, NoId)
  ELSE LET norm == IF StartsWith(pdf_path, <<"/">>)
                        \/ StartsWith(pdf_path, BASE_DIR \o <<"/">>)
                     THEN pdf_path
                     ELSE Join(BASE_DIR, pdf_path)
       IN IF Exists(f, norm) THEN norm
          ELSE auto_find_pdf(f, BaseName(norm))

(***************************************************************************)
(* Cache keys.  md5 is modelled as an injective digest: the key of         *)
(* "{path}_{mtime}" is the pair, the key of the path alone has no mtime.   *)
(***************************************************************************)
\* the hash of the path alone for every file
get_file_cache_key_path_only(f, pdf_path) == <<pdf_path, NoMtime>>

\* _get_file_cache_key: the hash of "{path}_{mtime}", of the path alone on OSError
get_file_cache_key(f, pdf_path) ==
  IF Exists(f, pdf_path) THEN <<pdf_path, f[pdf_path].mtime>>
  ELSE <<pdf_path, NoMtime>>

\* the current key taken to be the hash of the path alone
is_cache_valid_path_only(f, pdf_path, cache_key) == cache_key = <<pdf_path, NoMtime>>

is_cache_valid(f, pdf_path, cache_key) == cache_key = get_file_cache_key(f, pdf_path)

\* the query left out of the key
query_cache_key_no_query(cache_key, query) == <<cache_key, NoQuery>>

\* f"{cache_key}_{md5(query)}"
query_cache_key(cache_key, query) == <<cache_key, query>>

\* k.startswith(cache_key)
KeyStartsWith(k, cache_key) == k[1] = cache_key

(***************************************************************************)
(* Text.  Lengths are counted in units of Unit characters: a character of  *)
(* the model stands for Unit characters of the document.                   *)
(***************************************************************************)
Unit == 200

\* RecursiveCharacterTextSplitter(chunk_size=1000, chunk_overlap=200, separators=...)
chunk_size == 1000 \div Unit
chunk_overlap == 200 \div Unit
separators == <<"\n\n", "\n", ".", " ", "">>

Whitespace == {" ", "\n", "\n\n"}

SetMin(S) == CHOOSE x \in S : \A y \in S : x <= y
SetMax(S) == CHOOSE x \in S : \A y \in S : y <= x

RECURSIVE Concat(_)
Concat(ss) == IF ss = <<>> THEN <<>> ELSE Head(ss) \o Concat(Tail(ss))

\* sep.join(ss)
RECURSIVE JoinWith(_, _)
JoinWith(sep, ss) ==
  IF ss = <<>> THEN <<>>
  ELSE IF Len(ss) = 1 THEN ss[1]
  ELSE ss[1] \o sep \o JoinWith(sep, Tail(ss))

\* str.strip()
Strip(s) ==
  LET keep == {i \in 1..Len(s) : s[i] \notin Whitespace}
  IN IF keep = {} THEN <<>> ELSE SubSeq(s, SetMin(keep), SetMax(keep))

\* str.count(kw): the occurrences of kw counted from the left, none overlapping another
RECURSIVE CountFrom(_, _, _)
CountFrom(kw, text, i) ==
  IF i + Len(kw) - 1 > Len(text) THEN 0
  ELSE IF SubSeq(text, i, i + Len(kw) - 1) = kw
    THEN 1 + CountFrom(kw, text, i + Len(kw))
    ELSE CountFrom(kw, text, i + 1)

Count(kw, text) == CountFrom(kw, text, 1)

(***************************************************************************)
(* RecursiveCharacterTextSplitter, as PDFAnalyzer configures it: the        *)
(* separators are kept, at the start of the piece that follows them, and   *)
(* the chunks are stripped of the whitespace around them.                  *)
(***************************************************************************)
\* the pieces of text at the separator; every character a piece when it is ""
RECURSIVE split_text_with_regex(_, _)
split_text_with_regex(text, separator) ==
  IF text = <<>> THEN <<>>
  ELSE LET c == text[Len(text)]
           init == split_text_with_regex(SubSeq(text, 1, Len(text) - 1), separator)
       IN IF separator = "" \/ c = separator \/ init = <<>>
            THEN Append(init, <<c>>)
            ELSE [init EXCEPT ![Len(init)] = Append(@, c)]

TotalLen(doc) == Len(Concat(doc))

\* _join_docs: the pieces joined and stripped; empty stands for None
join_docs(doc) == Strip(Concat(doc))

\* the pieces kept for the next chunk: those at the end of the last one that fit in
\* chunk_overlap and leave room for the piece to come
RECURSIVE Shrink(_, _)
Shrink(current_doc, len) ==
  IF \/ TotalLen(current_doc) > chunk_overlap
     \/ (TotalLen(current_doc) + len > chunk_size /\ TotalLen(current_doc) > 0)
    THEN Shrink(Tail(current_doc), len)
    ELSE current_doc

RECURSIVE MergeFrom(_, _, _)
MergeFrom(splits, docs, current_doc) ==
  IF splits = <<>>
    THEN IF join_docs(current_doc) = <<>> THEN docs
         ELSE Append(docs, join_docs(current_doc))
  ELSE LET d == Head(splits)
           flush == /\ TotalLen(current_doc) + Len(d) > chunk_size
                    /\ current_doc # <<>>
           docs1 == IF flush /\ join_docs(current_doc) # <<>>
                      THEN Append(docs, join_docs(current_doc)) ELSE docs
           cur1 == IF flush THEN Shrink(current_doc, Len(d)) ELSE current_doc
       IN MergeFrom(Tail(splits), docs1, Append(cur1, d))

\* _merge_splits
merge_splits(splits) == MergeFrom(splits, <<>>, <<>>)

\* _split_text: split at the first separator the text holds, merge the pieces shorter
\* than chunk_size and split the others at the separators that follow
RECURSIVE split_text(_, _)
RECURSIVE SplitFrom(_, _, _, _)
SplitFrom(splits, new_separators, final_chunks, good_splits) ==
  LET merged == IF good_splits = <<>> THEN final_chunks
                ELSE final_chunks \o merge_splits(good_splits)
  IN IF splits = <<>> THEN merged
     ELSE IF Len(Head(splits)) < chunk_size
       THEN SplitFrom(Tail(splits), new_separators, final_chunks,
                      Append(good_splits, Head(splits)))
     ELSE SplitFrom(Tail(splits), new_separators,
                    IF new_separators = <<>> THEN Append(merged, Head(splits))
                    ELSE merged \o split_text(Head(splits), new_separators),
                    <<>>)

split_text(text, seps) ==
  LET found == {i \in 1..Len(seps) :
                  seps[i] = "" \/ \E j \in 1..Len(text) : text[j] = seps[i]}
      i == IF found = {} THEN Len(seps) ELSE SetMin(found)
      new_separators == IF found = {} \/ seps[i] = "" THEN <<>>
                        ELSE SubSeq(seps, i + 1, Len(seps))
  IN SplitFrom(split_text_with_regex(text, seps[i]), new_separators, <<>>, <<>>)

\* split_documents: the chunks of every page in turn, each with its page's number
RECURSIVE PageChunks(_, _)
PageChunks(pages, n) ==
  IF n > Len(pages) THEN <<>>
  ELSE [i \in 1..Len(split_text(pages[n], separators)) |->
          [page_content |-> split_text(pages[n], separators)[i], page |-> n - 1]]
         \o PageChunks(pages, n + 1)

split_documents(pages) == PageChunks(pages, 1)

(***************************************************************************)
(* Classification.  The table of categories is cut down to two, one with a *)
(* keyword that contains another.                                          *)
(***************************************************************************)
CategoryNames == {"architecture", "methodology"}
categories ==
  [architecture |-> <<<<"a">>, <<"a", "x">>>>,
   methodology |-> <<<<"x", "x">>>>]

\* " ".join([doc.page_content for doc in documents]).lower()
content_text(documents) ==
  Lower(JoinWith(<<" ">>, [i \in 1..Len(documents) |-> documents[i].page_content]))

RECURSIVE Sum(_)
Sum(s) == IF s = <<>> THEN 0 ELSE Head(s) + Sum(Tail(s))

\* [x for x in s if Keep(x)]
Filter(s, Keep(_)) ==
  LET idx == {i \in 1..Len(s) : Keep(s[i])}
  IN [k \in 1..Cardinality(idx) |->
        s[CHOOSE i \in idx : Cardinality({j \in idx : j <= i}) = k]]

\* a fraction num/den, den > 0
Frac(num, den) == [num |-> num, den |-> den]
FracLess(p, q) == p.num * q.den < q.num * p.den
FracEq(p, q) == p.num * q.den = q.num * p.den

\* relevance_score / 10.0 with no upper limit
confidence_unclamped(relevance_score) == Frac(relevance_score, 10)

\* min(relevance_score / 10.0, 1.0)
confidence(relevance_score) ==
  IF FracLess(Frac(1, 1), Frac(relevance_score, 10)) THEN Frac(1, 1)
  ELSE Frac(relevance_score, 10)

\* the match list holding every keyword of the category, found or not
CategoryScore_all_keywords(text, keywords) ==
  LET counts == [k \in 1..Len(keywords) |->
                   [keyword |-> keywords[k], count |-> Count(keywords[k], text)]]
      relevance_score == Sum([k \in 1..Len(counts) |-> counts[k].count])
  IN [relevance_score |-> relevance_score,
      keyword_matches |-> counts,
      confidence |-> confidence(relevance_score)]

\* the score of one category: the keywords found in the text, with their counts
CategoryScore(text, keywords) ==
  LET counts == [k \in 1..Len(keywords) |->
                   [keyword |-> keywords[k], count |-> Count(keywords[k], text)]]
      Matched(m) == m.count > 0
      relevance_score == Sum([k \in 1..Len(counts) |-> counts[k].count])
  IN [relevance_score |-> relevance_score,
      keyword_matches |-> Filter(counts, Matched),
      confidence |-> confidence(relevance_score)]

content_summary(documents) ==
  [category \in CategoryNames |->
     CategoryScore(content_text(documents), categories[category])]

\* the first `n` characters of a text
Take(s, n) == SubSeq(s, 1, IF n < Len(s) THEN n ELSE Len(s))

\* the sections taken from every chunk, not from the first ten
extracted_sections_all_chunks(documents) ==
  LET Long(doc) == Len(doc.page_content) > 200 \div Unit
      Section(doc) == [chunk_index |-> doc.chunk_index, page |-> doc.page,
                       preview |-> Take(doc.page_content, 200 \div Unit) \o <<"...">>,
                       length |-> Len(doc.page_content)]
      kept == Filter(documents, Long)
  IN [i \in 1..Len(kept) |-> Section(kept[i])]

\* the chunks among the first ten that are longer than 200 characters
extracted_sections(documents) ==
  LET Long(doc) == Len(doc.page_content) > 200 \div Unit
      Section(doc) == [chunk_index |-> doc.chunk_index, page |-> doc.page,
                       preview |-> Take(doc.page_content, 200 \div Unit) \o <<"...">>,
                       length |-> Len(doc.page_content)]
      kept == Filter(Take(documents, 10), Long)
  IN [i \in 1..Len(kept) |-> Section(kept[i])]

\* the query looked for in the first ten chunks only
query_analysis_first_ten(documents, query) ==
  LET Relevant(doc) == Contains(Lower(doc.page_content), Lower(query))
      kept == Filter(Take(documents, 10), Relevant)
  IN [query |-> query,
      relevant_chunks |->
        [i \in 1..Len(kept) |->
           [chunk_index |-> kept[i].chunk_index,
            relevance_snippet |->
              Take(kept[i].page_content, 300 \div Unit) \o <<"...">>]]]

\* the chunks that contain the query, whatever the case
query_analysis(documents, query) ==
  LET Relevant(doc) == Contains(Lower(doc.page_content), Lower(query))
      kept == Filter(documents, Relevant)
  IN [query |-> query,
      relevant_chunks |->
        [i \in 1..Len(kept) |->
           [chunk_index |-> kept[i].chunk_index,
            relevance_snippet |->
              Take(kept[i].page_content, 300 \div Unit) \o <<"...">>]]]

(***************************************************************************)
(* Values.                                                                 *)
(***************************************************************************)
ErrorValue(msg) == [error |-> msg]
IsError(r) == "error" \in DOMAIN r
Raised(e) == [raised |-> e]
IsRaised(r) == "raised" \in DOMAIN r
IsCompleted(r) == "analysis_status" \in DOMAIN r /\ r.analysis_status = "completed"

\* PyMuPDFLoader(pdf_path).load() raises on a missing or unparseable file
CanLoad(f, pdf_path) == Exists(f, pdf_path) /\ f[pdf_path].content.readable

extract_metadata(f, pdf_path, now) ==
  IF CanLoad(f, pdf_path)
    THEN [file_path |-> pdf_path, extraction_time |-> now]
    ELSE ErrorValue("Failed to extract metadata")

\* the chunks numbered from 1
SplitDocuments_from_one(pdf_path, content) ==
  LET chunks == split_documents(content.pages)
  IN [i \in 1..Len(chunks) |->
        [page_content |-> chunks[i].page_content, page |-> chunks[i].page,
         source_file |-> pdf_path, chunk_index |-> i,
         total_chunks |-> Len(chunks)]]

\* the chunks of process_pdf: split_documents, then the metadata update of every chunk
SplitDocuments(pdf_path, content) ==
  LET chunks == split_documents(content.pages)
  IN [i \in 1..Len(chunks) |->
        [page_content |-> chunks[i].page_content, page |-> chunks[i].page,
         source_file |-> pdf_path, chunk_index |-> i - 1,
         total_chunks |-> Len(chunks)]]

NumChunks(content) == Len(split_documents(content.pages))

\* the result without the query-specific analysis
BuildResult_without_query(resolved_path, metadata, documents, query) ==
  [source_file |-> resolved_path,
   metadata |-> metadata,
   total_chunks |-> Len(documents),
   content_summary |-> content_summary(documents),
   extracted_sections |-> extracted_sections(documents),
   analysis_status |-> "completed"]

\* the result analyze_content builds from the chunks
BuildResult(resolved_path, metadata, documents, query) ==
  [source_file |-> resolved_path,
   metadata |-> metadata,
   total_chunks |-> Len(documents),
   content_summary |-> content_summary(documents),
   extracted_sections |-> extracted_sections(documents),
   analysis_status |-> "completed"]
    @@ (IF query = NoQuery THEN <<>>
        ELSE [query_analysis |-> query_analysis(documents, query)])

(***************************************************************************)
(* The handlers, run from start to end with nothing in between.            *)
(***************************************************************************)
\* process_pdf: the chunks, the chunk table afterwards, whether the table served
\* them and how often the document was loaded
process_pdf(f, dc, pdf_path) ==
  LET cache_key == get_file_cache_key(f, pdf_path)
      hit == cache_key \in DOMAIN dc /\ is_cache_valid(f, pdf_path, cache_key)
      dc1 == IF cache_key \in DOMAIN dc /\ ~is_cache_valid(f, pdf_path, cache_key)
               THEN Del(dc, {cache_key}) ELSE dc
  IN IF hit
       THEN [docs |-> dc[cache_key], dc |-> dc, chit |-> TRUE, loads |-> 0]
     ELSE IF ~CanLoad(f, pdf_path)
       THEN [docs |-> <<>>, dc |-> dc1, chit |-> FALSE, loads |-> 1]
     ELSE LET processed_docs == SplitDocuments(pdf_path, f[pdf_path].content)
          IN [docs |-> processed_docs, dc |-> Put(dc1, cache_key, processed_docs),
              chit |-> FALSE, loads |-> 1]

\* analyze_content storing the error value of a failed processing as well
analyze_content_caching_errors(f, ac, dc, pdf_path, query, now) ==
  LET resolved_path == resolve_pdf_path(f, pdf_path)
      cache_key == get_file_cache_key(f, resolved_path)
      qkey == query_cache_key(cache_key, query)
      valid == is_cache_valid(f, resolved_path, cache_key)
      ac1 == IF qkey \in DOMAIN ac /\ ~valid
               THEN Del(ac, {k \in DOMAIN ac : KeyStartsWith(k, cache_key)})
               ELSE ac
      metadata == extract_metadata(f, resolved_path, now)
      pp == process_pdf(f, dc, resolved_path)
  IN IF resolved_path = NoPath
       THEN [res |-> ErrorValue("No PDF file found"), ac |-> ac, dc |-> dc,
             path |-> NoPath, ahit |-> FALSE, chit |-> FALSE, loads |-> 0,
             classified |-> FALSE]
     ELSE IF qkey \in DOMAIN ac /\ valid
       THEN [res |-> ac[qkey], ac |-> ac, dc |-> dc,
             path |-> resolved_path, ahit |-> TRUE, chit |-> FALSE, loads |-> 0,
             classified |-> FALSE]
     ELSE IF pp.docs = <<>>
       THEN [res |-> ErrorValue("Processing failed"),
             ac |-> Put(ac1, qkey, ErrorValue("Processing failed")), dc |-> pp.dc,
             path |-> resolved_path, ahit |-> FALSE, chit |-> pp.chit,
             loads |-> 1 + pp.loads, classified |-> FALSE]
     ELSE LET analysis_result == BuildResult(resolved_path, metadata, pp.docs, query)
          IN [res |-> analysis_result, ac |-> Put(ac1, qkey, analysis_result),
              dc |-> pp.dc, path |-> resolved_path, ahit |-> FALSE,
              chit |-> pp.chit, loads |-> 1 + pp.loads, classified |-> TRUE]

\* analyze_content: the value returned, both tables afterwards, and what was done
analyze_content(f, ac, dc, pdf_path, query, now) ==
  LET resolved_path == resolve_pdf_path(f, pdf_path)
      cache_key == get_file_cache_key(f, resolved_path)
      qkey == query_cache_key(cache_key, query)
      valid == is_cache_valid(f, resolved_path, cache_key)
      ac1 == IF qkey \in DOMAIN ac /\ ~valid
               THEN Del(ac, {k \in DOMAIN ac : KeyStartsWith(k, cache_key)})
               ELSE ac
      metadata == extract_metadata(f, resolved_path, now)
      pp == process_pdf(f, dc, resolved_path)
  IN IF resolved_path = NoPath
       THEN [res |-> ErrorValue("No PDF file found"), ac |-> ac, dc |-> dc,
             path |-> NoPath, ahit |-> FALSE, chit |-> FALSE, loads |-> 0,
             classified |-> FALSE]
     ELSE IF qkey \in DOMAIN ac /\ valid
       THEN [res |-> ac[qkey], ac |-> ac, dc |-> dc,
             path |-> resolved_path, ahit |-> TRUE, chit |-> FALSE, loads |-> 0,
             classified |-> FALSE]
     ELSE IF pp.docs = <<>>
       THEN [res |-> ErrorValue("Processing failed"), ac |-> ac1, dc |-> pp.dc,
             path |-> resolved_path, ahit |-> FALSE, chit |-> pp.chit,
             loads |-> 1 + pp.loads, classified |-> FALSE]
     ELSE LET analysis_result == BuildResult(resolved_path, metadata, pp.docs, query)
          IN [res |-> analysis_result, ac |-> Put(ac1, qkey, analysis_result),
              dc |-> pp.dc, path |-> resolved_path, ahit |-> FALSE,
              chit |-> pp.chit, loads |-> 1 + pp.loads, classified |-> TRUE]

\* only the analysis table cleared
clear_pdf_cache_analysis_only(an, ac, dc) ==
  IF an # NoAnalyzer THEN [ac |-> Empty, dc |-> dc] ELSE [ac |-> ac, dc |-> dc]

\* clear_pdf_cache: both tables afterwards
clear_pdf_cache(an, ac, dc) ==
  IF an # NoAnalyzer THEN [ac |-> Empty, dc |-> Empty] ELSE [ac |-> ac, dc |-> dc]

\* get_cache_stats
get_cache_stats(an, ac, dc) ==
  IF an = NoAnalyzer THEN [analysis_cache |-> 0, documents_cache |-> 0]
  ELSE [analysis_cache |-> Cardinality(DOMAIN ac),
        documents_cache |-> Cardinality(DOMAIN dc)]
(***************************************************************************)
(* Spec: the calls made one after another.                                 *)
(***************************************************************************)
NoResult == [none |-> TRUE]

\* what `last` keeps of the last call: the call, what it returned, what it did, how
\* it follows the call before it, and whether the files changed since it returned
Call(op, query, path, mt, res, ahit, chit, loads, classified, after, same, ploads) ==
  [op |-> op, query |-> query, path |-> path, mt |-> mt, res |-> res,
   ahit |-> ahit, chit |-> chit, loads |-> loads, classified |-> classified,
   after |-> after, same |-> same, ploads |-> ploads, env |-> FALSE]

Other(op, res) ==
  Call(op, NoQuery, NoPath, NoMtime, res, FALSE, FALSE, 0, FALSE, "other", FALSE, 0)

IdleThreads ==
  /\ pc = [t \in Threads |-> "idle"]
  /\ loc = [t \in Threads |-> NoResult]
  /\ calls = 0
  /\ env = 0
  /\ writer = 0
  /\ globals = NoGlobals

Init ==
  /\ fs \in {WithDir(f) : f \in [Paths -> Files]}
  /\ analyzer = NoAnalyzer
  /\ analysis_cache = Empty
  /\ documents_cache = Empty
  /\ last = Other("init", NoResult)
  /\ IdleThreads

\* get_pdf_analyzer(), first call
GetAnalyzer ==
  /\ analyzer = NoAnalyzer
  /\ analyzer' = 1
  /\ analysis_cache' = Empty
  /\ documents_cache' = Empty
  /\ last' = Other("get_pdf_analyzer", NoResult)
  /\ UNCHANGED <<fs, pc, loc, calls, env, writer, globals>>

\* how a call for `path` and `query` follows the call before it
After(path, query) ==
  IF last.op = "analyze" /\ IsCompleted(last.res) /\ last.path = path
    THEN (CASE ~last.env /\ last.query = query -> "same"
            [] ~last.env /\ last.query # query -> "newq"
            [] last.env /\ last.query = query /\ last.mt # fs[path].mtime -> "touched"
            [] OTHER -> "other")
    ELSE IF last.op = "clear" /\ ~last.env THEN "clear"
    ELSE "other"


\* pdf_analyzer.analyze_content(id, query)
Analyze(id, query, now) ==
  /\ analyzer # NoAnalyzer
  /\ \E r \in {analyze_content(fs, analysis_cache, documents_cache, id, query, now)} :
       /\ analysis_cache' = r.ac
       /\ documents_cache' = r.dc
       /\ last' = Call("analyze", query, r.path,
                       IF r.path = NoPath THEN NoMtime ELSE fs[r.path].mtime,
                       r.res, r.ahit, r.chit, r.loads,
                       r.classified, After(r.path, query),
                       r.res = last.res /\ r.ac = analysis_cache
                         /\ r.dc = documents_cache,
                       last.loads)
  /\ UNCHANGED <<fs, analyzer, pc, loc, calls, env, writer, globals>>

\* clear_pdf_cache(); `last` keeps the table sizes it found
Clear ==
  /\ analysis_cache' = clear_pdf_cache(analyzer, analysis_cache, documents_cache).ac
  /\ documents_cache' = clear_pdf_cache(analyzer, analysis_cache, documents_cache).dc
  /\ last' = Other("clear", get_cache_stats(analyzer, analysis_cache, documents_cache))
  /\ UNCHANGED <<fs, analyzer, pc, loc, calls, env, writer, globals>>

\* get_cache_stats()
Stats ==
  /\ last' = Other("stats", get_cache_stats(analyzer, analysis_cache, documents_cache))
  /\ UNCHANGED <<fs, analyzer, analysis_cache, documents_cache, pc, loc, calls, env, writer, globals>>

\* the file is written, touched or replaced from outside
WriteFile(p, m, c) ==
  /\ fs[p] # [exists |-> TRUE, mtime |-> m, content |-> c]
  /\ fs' = [fs EXCEPT ![p] = [exists |-> TRUE, mtime |-> m, content |-> c]]
  /\ last' = [last EXCEPT !.env = TRUE]
  /\ UNCHANGED <<analyzer, analysis_cache, documents_cache, pc, loc, calls, env, writer, globals>>

\* the file is removed from outside
DeleteFile(p) ==
  /\ fs[p].exists
  /\ fs' = [fs EXCEPT ![p] = NoFile]
  /\ last' = [last EXCEPT !.env = TRUE]
  /\ UNCHANGED <<analyzer, analysis_cache, documents_cache, pc, loc, calls, env, writer, globals>>

Next ==
  \/ GetAnalyzer
  \/ \E id \in Ids, q \in Queries : Analyze(id, q, Epoch)
  \/ Clear
  \/ Stats
  \/ \E p \in Paths, m \in Mtimes, c \in Contents : WriteFile(p, m, c)
  \/ \E p \in Paths : DeleteFile(p)

Spec == Init /\ [][Next]_vars
(***************************************************************************)
(* ConcSpec: concurrent callers of the one analyzer.  A caller takes one   *)
(* step per access to the file system or to a cache table; what it does in *)
(* between is local and is part of the step before.                        *)
(***************************************************************************)
\* the exception let through
AnalysisFailed_reraise(e) == Raised(e)

\* except Exception as e: return {"error": f"Analysis failed: {str(e)}"}
AnalysisFailed(e) == ErrorValue("Analysis failed")

\* a caller's local variables
Locals(op, query, path) ==
  [op |-> op, query |-> query, path |-> path, now |-> calls + 1,
   cache_key |-> <<NoPath, NoMtime>>,
   p_cache_key |-> <<NoPath, NoMtime>>, metadata |-> NoResult, documents |-> <<>>,
   keys_to_remove |-> {}, res |-> NoResult, ahit |-> FALSE, chit |-> FALSE,
   vanished |-> FALSE, version |-> NoMtime]

\* the tables after analyze_content(id, q) for each q of `queries` in turn, on files f
RECURSIVE Warm(_, _, _, _)
Warm(f, ac, dc, queries) ==
  IF queries = {} THEN [ac |-> ac, dc |-> dc]
  ELSE LET q == CHOOSE x \in queries : TRUE
       IN CHOOSE w \in {Warm(f, r.ac, r.dc, queries \ {q}) :
                          r \in {analyze_content(f, ac, dc, NoId, q, Epoch)}} : TRUE

\* The concurrent callers find the analyzer as earlier calls left it: some queries
\* already analyzed on the files as they are.
ConcInit ==
  /\ fs \in {WithDir(f) : f \in [Paths -> Files]}
  /\ analyzer = 1
  /\ \E W \in SUBSET Queries : \E w \in {Warm(fs, Empty, Empty, W)} :
       /\ analysis_cache = w.ac
       /\ documents_cache = w.dc
  /\ last = Other("init", NoResult)
  /\ pc = [t \in Threads |-> "idle"]
  /\ calls = 0
  /\ loc = [t \in Threads |-> Locals("none", NoQuery, NoPath)]
  /\ env = 0
  /\ writer = 0
  /\ globals = NoGlobals

\* a caller starts a call; the callers being alike, caller 1 makes the first call
CanStart(t) == pc[t] = "idle" /\ calls < MaxCalls /\ (t = 1 \/ calls > 0)

Goto(t, label) == pc' = [pc EXCEPT ![t] = label]
Set(t, l) == loc' = [loc EXCEPT ![t] = l]
Return(t, l, res) ==
  /\ pc' = [pc EXCEPT ![t] = "idle"]
  /\ loc' = [loc EXCEPT ![t] = [Locals(l.op, l.query, l.path) EXCEPT
                                  !.now = l.now, !.cache_key = l.cache_key,
                                  !.res = res, !.ahit = l.ahit, !.chit = l.chit,
                                  !.vanished = l.vanished, !.version = l.version]]
Tables == <<analysis_cache, documents_cache, writer>>
Fixed == <<fs, analyzer, last, calls, env, globals>>

\* the call starts: _resolve_pdf_path (utils.py:244-246)
StartAnalyze(t, id, query) ==
  /\ CanStart(t)
  /\ calls' = calls + 1
  /\ LET resolved_path == resolve_pdf_path(fs, id)
         l == Locals("analyze", query, resolved_path)
     IN IF resolved_path = NoPath
          THEN Return(t, l, ErrorValue("No PDF file found"))
          ELSE Goto(t, "a_key") /\ Set(t, l)
  /\ UNCHANGED <<fs, analyzer, last, env, Tables, globals>>

\* cache_key = self._get_file_cache_key(resolved_path) (utils.py:249-250)
AKey(t) ==
  /\ pc[t] = "a_key"
  /\ Goto(t, "a_member")
  /\ Set(t, [loc[t] EXCEPT !.cache_key = get_file_cache_key(fs, loc[t].path),
                           !.vanished = ~Exists(fs, loc[t].path),
                           !.version = IF Exists(fs, loc[t].path)
                                         THEN fs[loc[t].path].mtime ELSE NoMtime])
  /\ UNCHANGED <<Fixed, Tables>>

QKey(t) == query_cache_key(loc[t].cache_key, loc[t].query)

\* if query_cache_key in self._analysis_cache (utils.py:252)
AMember(t) ==
  /\ pc[t] = "a_member"
  /\ Goto(t, IF QKey(t) \in DOMAIN analysis_cache THEN "a_valid" ELSE "meta")
  /\ UNCHANGED <<loc, Fixed, Tables>>

\* if self._is_cache_valid(resolved_path, cache_key) (utils.py:253)
AValid(t) ==
  /\ pc[t] = "a_valid"
  /\ Goto(t, IF is_cache_valid(fs, loc[t].path, loc[t].cache_key)
               THEN "a_read" ELSE "a_scan")
  /\ UNCHANGED <<loc, Fixed, Tables>>

\* return self._analysis_cache[query_cache_key] (utils.py:254)
ARead(t) ==
  /\ pc[t] = "a_read"
  /\ IF QKey(t) \in DOMAIN analysis_cache
       THEN Return(t, [loc[t] EXCEPT !.ahit = TRUE], analysis_cache[QKey(t)])
       ELSE Return(t, loc[t], AnalysisFailed("KeyError"))
  /\ UNCHANGED <<Fixed, Tables>>

\* keys_to_remove = [k for k in ... if k.startswith(cache_key)] (utils.py:257)
AScan(t) ==
  /\ pc[t] = "a_scan"
  /\ Goto(t, "a_del")
  /\ Set(t, [loc[t] EXCEPT !.keys_to_remove =
               {k \in DOMAIN analysis_cache : KeyStartsWith(k, loc[t].cache_key)}])
  /\ UNCHANGED <<Fixed, Tables>>

\* for k in keys_to_remove: del self._analysis_cache[k] (utils.py:258-259)
ADel(t) ==
  /\ pc[t] = "a_del"
  /\ IF loc[t].keys_to_remove = {}
       THEN Goto(t, "meta") /\ UNCHANGED <<loc, analysis_cache>>
       ELSE \E k \in loc[t].keys_to_remove :
              IF k \in DOMAIN analysis_cache
                THEN /\ analysis_cache' = Del(analysis_cache, {k})
                     /\ Set(t, [loc[t] EXCEPT !.keys_to_remove = @ \ {k}])
                     /\ UNCHANGED pc
                ELSE /\ Return(t, loc[t], AnalysisFailed("KeyError"))
                     /\ UNCHANGED analysis_cache
  /\ UNCHANGED <<Fixed, documents_cache, writer>>

\* metadata = self.extract_metadata(resolved_path) (utils.py:262)
Meta(t) ==
  /\ pc[t] = "meta"
  /\ Goto(t, "p_key")
  /\ Set(t, [loc[t] EXCEPT !.metadata = extract_metadata(fs, loc[t].path, loc[t].now)])
  /\ UNCHANGED <<Fixed, Tables>>

\* process_pdf: cache_key = self._get_file_cache_key(pdf_path) (utils.py:189)
PKey(t) ==
  /\ pc[t] = "p_key"
  /\ Goto(t, "p_member")
  /\ Set(t, [loc[t] EXCEPT !.p_cache_key = get_file_cache_key(fs, loc[t].path)])
  /\ UNCHANGED <<Fixed, Tables>>

\* process_pdf has returned `documents`: utils.py:265-336 up to the write of the result
Processed(t, l, documents) ==
  IF documents = <<>>
    THEN Return(t, l, ErrorValue("Processing failed"))
    ELSE /\ Goto(t, "a_write")
         /\ Set(t, [l EXCEPT !.documents = documents,
                             !.res = BuildResult(l.path, l.metadata, documents,
                                                 l.query)])

\* if cache_key in self._documents_cache (utils.py:191)
PMember(t) ==
  /\ pc[t] = "p_member"
  /\ Goto(t, IF loc[t].p_cache_key \in DOMAIN documents_cache
               THEN "p_valid" ELSE "p_load")
  /\ UNCHANGED <<loc, Fixed, Tables>>

\* if self._is_cache_valid(pdf_path, cache_key) (utils.py:192)
PValid(t) ==
  /\ pc[t] = "p_valid"
  /\ Goto(t, IF is_cache_valid(fs, loc[t].path, loc[t].p_cache_key)
               THEN "p_read" ELSE "p_del")
  /\ UNCHANGED <<loc, Fixed, Tables>>

\* return self._documents_cache[cache_key] (utils.py:193); a KeyError is caught by
\* process_pdf, which then returns [] (utils.py:216-218)
PRead(t) ==
  /\ pc[t] = "p_read"
  /\ IF loc[t].p_cache_key \in DOMAIN documents_cache
       THEN Processed(t, [loc[t] EXCEPT !.chit = TRUE],
                      documents_cache[loc[t].p_cache_key])
       ELSE Processed(t, loc[t], <<>>)
  /\ UNCHANGED <<Fixed, Tables>>

\* del self._documents_cache[cache_key] (utils.py:196)
PDel(t) ==
  /\ pc[t] = "p_del"
  /\ IF loc[t].p_cache_key \in DOMAIN documents_cache
       THEN /\ documents_cache' = Del(documents_cache, {loc[t].p_cache_key})
            /\ Goto(t, "p_load")
            /\ UNCHANGED loc
       ELSE /\ Processed(t, loc[t], <<>>)
            /\ UNCHANGED documents_cache
  /\ UNCHANGED <<Fixed, analysis_cache, writer>>

\* loader.load(), split_documents and the chunks' metadata (utils.py:199-209)
PLoad(t) ==
  /\ pc[t] = "p_load"
  /\ IF CanLoad(fs, loc[t].path)
       THEN /\ Goto(t, "p_write")
            /\ Set(t, [loc[t] EXCEPT !.documents =
                         SplitDocuments(loc[t].path, fs[loc[t].path].content)])
       ELSE Processed(t, loc[t], <<>>)
  /\ UNCHANGED <<Fixed, Tables>>

\* self._documents_cache[cache_key] = processed_docs (utils.py:212)
PWrite(t) ==
  /\ pc[t] = "p_write"
  /\ documents_cache' = Put(documents_cache, loc[t].p_cache_key, loc[t].documents)
  /\ Processed(t, loc[t], loc[t].documents)
  /\ UNCHANGED <<Fixed, analysis_cache, writer>>

\* self._analysis_cache[query_cache_key] = analysis_result (utils.py:336-338)
AWrite(t) ==
  /\ pc[t] = "a_write"
  /\ analysis_cache' = Put(analysis_cache, QKey(t), loc[t].res)
  /\ writer' = t
  /\ Return(t, loc[t], loc[t].res)
  /\ UNCHANGED <<Fixed, documents_cache>>

\* clear_pdf_cache(): _pdf_analyzer._analysis_cache.clear() (utils.py:380-381)
ClearAnalysis(t) ==
  /\ CanStart(t)
  /\ calls' = calls + 1
  /\ IF analyzer # NoAnalyzer
       THEN /\ analysis_cache' = Empty
            /\ Goto(t, "c_docs")
            /\ Set(t, Locals("clear", NoQuery, NoPath))
       ELSE /\ Return(t, Locals("clear", NoQuery, NoPath), NoResult)
            /\ UNCHANGED analysis_cache
  /\ UNCHANGED <<fs, analyzer, last, env, documents_cache, writer, globals>>

\* _pdf_analyzer._documents_cache.clear() (utils.py:382)
ClearDocuments(t) ==
  /\ pc[t] = "c_docs"
  /\ documents_cache' = Empty
  /\ Return(t, loc[t], NoResult)
  /\ UNCHANGED <<Fixed, analysis_cache, writer>>

\* get_cache_stats(): len(_pdf_analyzer._analysis_cache) (utils.py:387-391)
StatsAnalysis(t) ==
  /\ CanStart(t)
  /\ calls' = calls + 1
  /\ IF analyzer # NoAnalyzer
       THEN /\ Goto(t, "s_docs")
            /\ Set(t, [Locals("stats", NoQuery, NoPath) EXCEPT
                         !.res = [analysis_cache |-> Cardinality(DOMAIN analysis_cache)]])
       ELSE Return(t, Locals("stats", NoQuery, NoPath),
                   get_cache_stats(analyzer, analysis_cache, documents_cache))
  /\ UNCHANGED <<fs, analyzer, last, env, Tables, globals>>

\* len(_pdf_analyzer._documents_cache) (utils.py:392)
StatsDocuments(t) ==
  /\ pc[t] = "s_docs"
  /\ Return(t, loc[t], [analysis_cache |-> loc[t].res.analysis_cache,
                        documents_cache |-> Cardinality(DOMAIN documents_cache)])
  /\ UNCHANGED <<Fixed, Tables>>

\* the file is written, touched or replaced from outside while calls are under way
EnvWrite(p, m, c) ==
  /\ env < MaxEnv
  /\ fs[p] # [exists |-> TRUE, mtime |-> m, content |-> c]
  /\ fs' = [fs EXCEPT ![p] = [exists |-> TRUE, mtime |-> m, content |-> c]]
  /\ env' = env + 1
  /\ UNCHANGED <<analyzer, last, calls, pc, loc, Tables, globals>>

\* the file is removed from outside while calls are under way
EnvDelete(p) ==
  /\ env < MaxEnv
  /\ fs[p].exists
  /\ fs' = [fs EXCEPT ![p] = NoFile]
  /\ env' = env + 1
  /\ UNCHANGED <<analyzer, last, calls, pc, loc, Tables, globals>>

Step(t) ==
  \/ \E id \in Ids, q \in Queries : StartAnalyze(t, id, q)
  \/ AKey(t)
  \/ AMember(t)
  \/ AValid(t)
  \/ ARead(t)
  \/ Meta(t)
  \/ PKey(t)
  \/ PMember(t)
  \/ PValid(t)
  \/ PRead(t)
  \/ PLoad(t)
  \/ PWrite(t)
  \/ AWrite(t)
  \/ ClearAnalysis(t)
  \/ ClearDocuments(t)
  \/ StatsAnalysis(t)
  \/ StatsDocuments(t)

\* the steps taken only once a key has been found invalid, which takes a change of
\* the file between the computation of the key and its validation
EvictStep(t) ==
  \/ AScan(t)
  \/ ADel(t)
  \/ PDel(t)

ConcNext == \E t \in Threads : Step(t)

ConcSpec == ConcInit /\ [][ConcNext]_vars

\* with the files unchanged no caller ever reaches an eviction step
NoEvictionStep == \A t \in Threads : pc[t] \notin {"a_scan", "a_del", "p_del"}

EnvNext ==
  \/ \E t \in Threads : Step(t)
  \/ \E t \in Threads : EvictStep(t)
  \/ \E p \in Paths, m \in Mtimes, c \in Contents : EnvWrite(p, m, c)
  \/ \E p \in Paths : EnvDelete(p)

EnvSpec == ConcInit /\ [][EnvNext]_vars

(***************************************************************************)
(* Claims checked under Spec.                                              *)
(***************************************************************************)
CurrentKey(p) == get_file_cache_key(fs, p)
ChunkKeysOf(p) == {k \in DOMAIN documents_cache : k[1] = p}
AnalysisKeysOf(p) == {k \in DOMAIN analysis_cache : k[1][1] = p}

\* C1: after an analyze(path, q) that completed, once the file's modification time
\* differs from the one of that call, the next analyze(path, q) misses in the
\* analysis table and in the chunk table, and what it returns was classified anew.
C1_StaleIsMiss ==
  (last.op = "analyze" /\ last.after = "touched") =>
     /\ ~last.ahit
     /\ ~last.chit
     /\ (IsCompleted(last.res) => last.classified)

\* C2: when an analyze call for a document has returned, neither table holds an
\* entry of that document under a key other than the document's current one.
C2_StaleEvicted ==
  (last.op = "analyze" /\ ~last.env /\ last.path # NoPath) =>
     /\ \A k \in ChunkKeysOf(last.path) : k = CurrentKey(last.path)
     /\ \A k \in AnalysisKeysOf(last.path) : k[1] = CurrentKey(last.path)

\* C3: an analyze(id, query) that follows a completed analyze(id, query) with no
\* change of the files in between is served from the analysis table: it returns
\* the same value, loads and classifies nothing, and leaves both tables as they were.
C3_RepeatIsHit ==
  (last.op = "analyze" /\ last.after = "same") =>
     /\ last.ahit
     /\ last.same
     /\ last.loads = 0
     /\ ~last.classified

C3_Witness ==
  /\ last.op = "analyze" /\ last.after = "same"
  /\ IsCompleted(last.res) /\ last.ahit

\* C4: a completed result is the one of the query it was asked for, every entry of
\* the analysis table is the result of its key's query, and a document analyzed
\* for two queries has an entry for each.
QueryOf(res) ==
  IF "query_analysis" \in DOMAIN res THEN res.query_analysis.query ELSE NoQuery

C4_KeyedByQuery ==
  /\ (last.op = "analyze" /\ IsCompleted(last.res)) => QueryOf(last.res) = last.query
  /\ \A k \in DOMAIN analysis_cache : QueryOf(analysis_cache[k]) = k[2]
  /\ (last.op = "analyze" /\ last.after = "newq" /\ IsCompleted(last.res)) =>
        Cardinality({k \in DOMAIN analysis_cache : k[1] = <<last.path, last.mt>>}) >= 2

C4_Witness ==
  /\ last.op = "analyze" /\ last.after = "newq" /\ IsCompleted(last.res)
  /\ last.query = NoQuery

\* C5: an analyze for a new query on a document that is chunked and unchanged takes
\* the chunks from the chunk table and does not load the document again.
C5_ParsedOnce ==
  (last.op = "analyze" /\ last.after = "newq" /\ IsCompleted(last.res)) =>
     /\ last.chit
     /\ last.loads = 0

\* C6: after clear() both tables are empty and get_cache_stats() reports 0 and 0; the
\* analyze that follows is a miss in both tables; get_cache_stats() reports the
\* number of entries of each table, and 0 and 0 while there is no analyzer.
ZeroStats == [analysis_cache |-> 0, documents_cache |-> 0]

C6_ClearEmpties ==
  /\ last.op = "clear" =>
       get_cache_stats(analyzer, analysis_cache, documents_cache) = ZeroStats
  /\ (last.op = "analyze" /\ last.after = "clear") => ~last.ahit /\ ~last.chit
  /\ last.op = "stats" =>
       /\ last.res.analysis_cache = Cardinality(DOMAIN analysis_cache)
       /\ last.res.documents_cache = Cardinality(DOMAIN documents_cache)
       /\ analyzer = NoAnalyzer => last.res = ZeroStats

C6_Witness ==
  /\ last.op = "clear"
  /\ last.res.analysis_cache > 0
  /\ last.res.documents_cache > 0
(***************************************************************************)
(* Claims checked under ConcSpec and EnvSpec.                              *)
(***************************************************************************)
Returned(t) == pc[t] = "idle" /\ loc[t].op = "analyze"

\* C7: whatever analyze_content returns is a completed result or a value with an
\* error field, never an exception; it is the not-found error when no document
\* was resolved.
C7_NeverRaises ==
  \A t \in Threads : Returned(t) =>
     /\ IsCompleted(loc[t].res) \/ IsError(loc[t].res)
     /\ loc[t].path = NoPath => loc[t].res = ErrorValue("No PDF file found")

C7_Witness ==
  \E t \in Threads : Returned(t) /\ loc[t].res = ErrorValue("Analysis failed")

\* C8: while a caller is between its membership test on a table and its read or
\* delete on that table, no other caller's step changes that table.
InAnalysisSection(t) == pc[t] \in {"a_valid", "a_read", "a_scan", "a_del"}
InDocumentsSection(t) == pc[t] \in {"p_valid", "p_read", "p_del"}
Waits(t) == pc'[t] = pc[t] /\ loc'[t] = loc[t]

C8_TableAccessExclusive ==
  [][\A t \in Threads :
       /\ (InAnalysisSection(t) /\ Waits(t)) => analysis_cache' = analysis_cache
       /\ (InDocumentsSection(t) /\ Waits(t)) => documents_cache' = documents_cache]_vars

\* C9: when the only two calls made are analyze calls for the same document and
\* query, the document has text and neither call was served from the analysis
\* table, then both return a completed result, the analysis table holds one entry
\* for the document and query, which is the result of the call that wrote last,
\* and the chunk table holds one entry for the document.
BothComputed ==
  /\ calls = 2
  /\ \A t \in Threads : Returned(t) /\ ~loc[t].ahit
  /\ loc[1].path = loc[2].path /\ loc[1].path # NoPath
  /\ loc[1].query = loc[2].query
  /\ fs[loc[1].path].content = TextA

C9_LastWriteWins ==
  BothComputed =>
     /\ \A t \in Threads : IsCompleted(loc[t].res)
     /\ loc[1].res # loc[2].res
     /\ writer \in Threads
     /\ Cardinality({k \in AnalysisKeysOf(loc[1].path) : k[2] = loc[1].query}) = 1
     /\ analysis_cache[query_cache_key(CurrentKey(loc[1].path), loc[1].query)]
          = loc[writer].res
     /\ Cardinality(ChunkKeysOf(loc[1].path)) = 1

C9_Witness == BothComputed

\* C10: when the file had vanished by the time analyze_content computed its key,
\* the call is served from neither table, and when it has returned (no other
\* caller being at work, the file still gone) neither table holds an entry of
\* the file any more.
C10_VanishedEvicted ==
  \A t \in Threads :
    (Returned(t) /\ loc[t].vanished /\ ~Exists(fs, loc[t].path)
       /\ \A u \in Threads \ {t} : loc[u].op = "none") =>
       /\ ~loc[t].ahit
       /\ ~loc[t].chit
       /\ ChunkKeysOf(loc[t].path) = {}
       /\ AnalysisKeysOf(loc[t].path) = {}

(***************************************************************************)
(* ResolveSpec: document discovery and resolution on every directory       *)
(* content over a few names.                                               *)
(***************************************************************************)
\* the names a directory may hold: two that differ in case only, one that contains
\* another, one in a subdirectory and one with another extension
ResolvePaths ==
  {<<"m", "/", "A", ".pdf">>, <<"m", "/", "a", ".pdf">>, <<"m", "/", "a", "b", ".pdf">>,
   <<"m", "/", "b", "/", "a", ".pdf">>, <<"m", "/", "a", ".txt">>}

ResolveIds ==
  {NoId, <<"a">>, <<"a", ".pdf">>, <<"A">>, <<"b">>, <<"x">>,
   <<"m", "/", "a", ".pdf">>, <<"a", ".txt">>}

OneFile == [exists |-> TRUE, mtime |-> 1, content |-> TextA]

\* no directory, or the directory with any of the names in it
Directories ==
  {[p \in ResolvePaths \cup {BASE_DIR} |-> NoFile]}
    \cup {WithDir(f) : f \in [ResolvePaths -> {NoFile, OneFile}]}

\* analyze_pdfs: the documents it analyses, pdf_files[:3]
analyze_pdfs_files(f) == Take(find_pdf_files(f), 3)

ResolveInit ==
  /\ fs \in Directories
  /\ analyzer = NoAnalyzer
  /\ analysis_cache = Empty
  /\ documents_cache = Empty
  /\ last = [op |-> "init", id |-> NoId, res |-> NoPath]
  /\ IdleThreads

Unused == <<fs, analyzer, analysis_cache, documents_cache, pc, loc, calls, env, writer, globals>>

\* find_pdf_files()
FindFiles ==
  /\ last' = [op |-> "find_pdf_files", id |-> NoId, res |-> find_pdf_files(fs)]
  /\ UNCHANGED Unused

\* auto_find_pdf(pdf_identifier)
AutoFind(id) ==
  /\ last' = [op |-> "auto_find_pdf", id |-> id, res |-> auto_find_pdf(fs, id)]
  /\ UNCHANGED Unused

\* _resolve_pdf_path(pdf_path)
Resolve(id) ==
  /\ last' = [op |-> "resolve_pdf_path", id |-> id, res |-> resolve_pdf_path(fs, id)]
  /\ UNCHANGED Unused

ResolveNext ==
  \/ FindFiles
  \/ \E id \in ResolveIds : AutoFind(id)
  \/ \E id \in ResolveIds : Resolve(id)

ResolveSpec == ResolveInit /\ [][ResolveNext]_vars

(***************************************************************************)
(* Claims checked under ResolveSpec.                                       *)
(***************************************************************************)
\* the first of a set of paths in the order of find_pdf_files
Least(S) == CHOOSE x \in S : \A y \in S \ {x} : StrLess(x, y)

ExactMatches(id) == {p \in GlobRecursive(fs) : BaseName(p) = id}
NameMatches(id) == {p \in GlobRecursive(fs) : Contains(Lower(BaseName(p)), Lower(id))}
PathMatches(id) == {p \in GlobRecursive(fs) : Contains(Lower(p), Lower(id))}

\* C11: for a non-empty identifier auto_find_pdf returns the first file whose name is
\* the identifier if there is one, else the first whose name contains it whatever
\* the case, else the first whose path contains it whatever the case, else None.
C11_TieredMatch ==
  (last.op = "auto_find_pdf" /\ last.id # NoId) =>
     last.res = IF ExactMatches(last.id) # {} THEN Least(ExactMatches(last.id))
                ELSE IF NameMatches(last.id) # {} THEN Least(NameMatches(last.id))
                ELSE IF PathMatches(last.id) # {} THEN Least(PathMatches(last.id))
                ELSE NoPath

\* a file named as the identifier is returned though one listed before it contains it
C11_Witness ==
  /\ last.op = "auto_find_pdf" /\ last.id # NoId
  /\ last.res \in ExactMatches(last.id)
  /\ \E p \in NameMatches(last.id) : StrLess(p, last.res)

\* C12: without an identifier auto_find_pdf and _resolve_pdf_path return the first
\* element of find_pdf_files(), and None when it is empty.
C12_EmptyIdentifier ==
  (last.op \in {"auto_find_pdf", "resolve_pdf_path"} /\ last.id = NoId) =>
     last.res = IF find_pdf_files(fs) = <<>> THEN NoPath ELSE find_pdf_files(fs)[1]

C12_Witness ==
  /\ last.op = "resolve_pdf_path" /\ last.id = NoId
  /\ Len(find_pdf_files(fs)) > 2
  /\ last.res = Least(GlobRecursive(fs))

\* C13: find_pdf_files() on a directory that does not exist, or that holds no file
\* with the extension, returns the empty list.
C13_EmptyCorpus ==
  (last.op = "find_pdf_files" /\ (~Exists(fs, BASE_DIR) \/ GlobRecursive(fs) = {})) =>
     last.res = <<>>

C13_Witness ==
  /\ last.op = "find_pdf_files" /\ last.res = <<>>
  /\ Exists(fs, BASE_DIR)
  /\ \E p \in DOMAIN fs : p # BASE_DIR /\ fs[p].exists

C30_NoDuplicates ==
  last.op = "find_pdf_files" =>
     /\ \A i, j \in 1..Len(last.res) : i # j => last.res[i] # last.res[j]
     /\ Cardinality(GlobRecursive(fs)) >= 3 =>
           Cardinality({analyze_pdfs_files(fs)[i] : i \in 1..3}) = 3

Alphabet == {"a", "x", " "}

\* the texts over the characters A of at most n characters
RECURSIVE TextsOver(_, _)
TextsOver(A, n) ==
  IF n = 0 THEN {<<>>}
  ELSE TextsOver(A, n - 1)
         \cup {Append(s, c) : s \in TextsOver(A, n - 1), c \in A}

Texts == TextsOver(Alphabet, MaxText)
ShortTexts == TextsOver(Alphabet \cup {"A"}, MaxText \div 3)

\* documents of one page of text, and of two pages of a short text each
Documents ==
  {[readable |-> TRUE, pages |-> <<s>>] : s \in Texts}
    \cup {[readable |-> TRUE, pages |-> <<s, u>>] : s \in ShortTexts, u \in ShortTexts}

\* the directory with the one file P1
OneDocument(content) ==
  WithDir([p \in Paths |-> [exists |-> TRUE, mtime |-> 1, content |-> content]])

\* the analyzer before its first analysis of a document
Fresh(documents) ==
  /\ fs \in {OneDocument(content) : content \in documents}
  /\ analyzer = 1
  /\ analysis_cache = Empty
  /\ documents_cache = Empty
  /\ last = Other("init", NoResult)
  /\ IdleThreads

ClassifyInit == Fresh(Documents)

ClassifyNext == \E q \in Queries : Analyze(NoId, q, Epoch)

ClassifySpec == ClassifyInit /\ [][ClassifyNext]_vars

(***************************************************************************)
(* Claims checked under ClassifySpec.                                      *)
(***************************************************************************)
\* the occurrences of a category's keywords in the pages of a document
SourceScore(pages, category) ==
  Sum([n \in 1..Len(pages) |->
         Sum([k \in 1..Len(categories[category]) |->
                Count(categories[category][k], Lower(pages[n]))])])

\* C15: the relevance_score of every category in a completed result is the number
\* of occurrences of the category's keywords in the text of the document.
C15_ScoreIsOccurrences ==
  (last.op = "analyze" /\ IsCompleted(last.res)) =>
     \A category \in CategoryNames :
        last.res.content_summary[category].relevance_score
          = SourceScore(fs[last.path].content.pages, category)

\* the chunks carry the indices 0..N-1 in order, and each of them the total N
Indexed(docs) ==
  \A i \in 1..Len(docs) :
     docs[i].chunk_index = i - 1 /\ docs[i].total_chunks = Len(docs)

\* C18: the chunks of a processed document, as the chunk table holds and returns
\* them, are numbered 0..N-1 in order and each carries total_chunks = N; a completed
\* result reports the same N as its total_chunks.
C18_ChunkIndices ==
  /\ \A k \in DOMAIN documents_cache : Indexed(documents_cache[k])
  /\ (last.op = "analyze" /\ IsCompleted(last.res)) =>
        /\ CurrentKey(last.path) \in DOMAIN documents_cache
        /\ last.res.total_chunks = Len(documents_cache[CurrentKey(last.path)])
        /\ last.res.total_chunks = Len(split_documents(fs[last.path].content.pages))

\* an analysis served by the chunk table with a list of several chunks
C18_Witness ==
  /\ last.op = "analyze" /\ IsCompleted(last.res) /\ last.chit
  /\ last.res.total_chunks >= 2
  /\ Len(documents_cache[CurrentKey(last.path)]) = last.res.total_chunks

\* the text is the chunks in order, each two neighbours sharing at most
\* chunk_overlap characters
RECURSIVE Reassembles(_, _)
Reassembles(text, chunks) ==
  IF chunks = <<>> THEN text = <<>>
  ELSE /\ StartsWith(text, chunks[1])
       /\ IF Len(chunks) = 1 THEN text = chunks[1]
          ELSE \E o \in 0..chunk_overlap :
                 /\ o <= Len(chunks[1])
                 /\ Reassembles(SubSeq(text, Len(chunks[1]) - o + 1, Len(text)),
                                Tail(chunks))

\* the texts of the chunks taken from page number n
ChunksOfPage(docs, n) ==
  LET OnPage(d) == d.page = n
      found == Filter(docs, OnPage)
  IN [i \in 1..Len(found) |-> found[i].page_content]

\* C19: the chunks of a completed analysis, joined with their overlaps removed, are
\* the extracted text of each page of the document.
C19_ChunksReassemble ==
  (last.op = "analyze" /\ IsCompleted(last.res)) =>
     \A n \in 1..Len(fs[last.path].content.pages) :
        Reassembles(fs[last.path].content.pages[n],
                    ChunksOfPage(documents_cache[CurrentKey(last.path)], n - 1))

(***************************************************************************)
(* ScoreSpec: the scoring of one category on a text of many occurrences.   *)
(***************************************************************************)
\* the text of n times the character c
RECURSIVE Repeat(_, _)
Repeat(c, n) == IF n = 0 THEN <<>> ELSE <<c>> \o Repeat(c, n - 1)

ScoreInit ==
  /\ fs = OneDocument(NoText)
  /\ analyzer = 1
  /\ analysis_cache = Empty
  /\ documents_cache = Empty
  /\ last \in {[op |-> "text", category |-> "", text |-> Repeat(c, n), res |-> NoResult] :
                 c \in {"a", "x"}, n \in 0..MaxScore}
  /\ IdleThreads

\* one round of the loop over categories.items() on content_text
Classify(category) ==
  /\ last.op = "text"
  /\ last' = [last EXCEPT !.op = "classify", !.category = category,
                          !.res = CategoryScore(Lower(last.text), categories[category])]
  /\ UNCHANGED Unused

ScoreNext == \E category \in CategoryNames : Classify(category)

ScoreSpec == ScoreInit /\ [][ScoreNext]_vars

\* C16: the confidence of a category is 1 for a score of ten or more, 0 for a score
\* of zero and the score divided by ten in between; it lies in [0, 1] and is not
\* below the confidence of any smaller score.
C16_ConfidenceSaturates ==
  last.op = "classify" =>
    LET s == last.res.relevance_score
        c == last.res.confidence
    IN /\ s >= 10 => FracEq(c, Frac(1, 1))
       /\ s = 0 => FracEq(c, Frac(0, 1))
       /\ s \in 1..9 => FracEq(c, Frac(s, 10))
       /\ ~FracLess(c, Frac(0, 1))
       /\ ~FracLess(Frac(1, 1), c)
       /\ \A n \in 0..s : ~FracLess(c, confidence(n))

\* a category scored above ten
C16_Witness ==
  /\ last.op = "classify"
  /\ last.res.relevance_score > 10
  /\ FracEq(last.res.confidence, Frac(1, 1))

(***************************************************************************)
(* OccurrenceSpec: a document is analysed, a keyword is written into it,   *)
(* and it is analysed again.                                               *)
(***************************************************************************)
Words == TextsOver({"a", "x"}, MaxWord)

OccurrenceInit == Fresh({[readable |-> TRUE, pages |-> <<w>>] : w \in Words})

\* the text with the keyword put in after its first i characters
Insert(text, keyword, i) ==
  SubSeq(text, 1, i) \o keyword \o SubSeq(text, i + 1, Len(text))

\* the categories that have the keyword
CategoriesOf(keyword) ==
  {category \in CategoryNames :
     \E k \in 1..Len(categories[category]) : categories[category][k] = keyword}

\* no keyword of the category occurs less often in the text new than in old
KeepsOccurrences(category, old, new) ==
  \A k \in 1..Len(categories[category]) :
     Count(categories[category][k], Lower(new)) >= Count(categories[category][k], Lower(old))

\* the analysed file is rewritten with one more occurrence of the keyword
AddOccurrence(p, keyword, i) ==
  /\ last.op = "analyze" /\ IsCompleted(last.res) /\ last.path = p /\ ~last.env
  /\ fs[p].mtime < MaxMtime
  /\ \E new \in {Insert(fs[p].content.pages[1], keyword, i)} :
       /\ Count(keyword, Lower(new)) > Count(keyword, Lower(fs[p].content.pages[1]))
       /\ \A category \in CategoriesOf(keyword) :
             KeepsOccurrences(category, fs[p].content.pages[1], new)
       /\ fs' = [fs EXCEPT ![p] = [exists |-> TRUE, mtime |-> fs[p].mtime + 1,
                                   content |-> [readable |-> TRUE, pages |-> <<new>>]]]
  /\ last' = [added |-> keyword] @@ [last EXCEPT !.env = TRUE]
  /\ UNCHANGED <<analyzer, analysis_cache, documents_cache, pc, loc, calls, env, writer, globals>>

OccurrenceNext ==
  \/ Analyze(NoId, NoQuery, Epoch)
  \/ \E category \in CategoryNames : \E k \in 1..Len(categories[category]) :
        \E i \in {0, Len(fs[P1].content.pages[1])} :
           AddOccurrence(P1, categories[category][k], i)

OccurrenceSpec == OccurrenceInit /\ [][OccurrenceNext]_vars

\* C17: when a keyword of a category has been added to an analysed document and no
\* occurrence removed, the next analysis does not score the category lower.
C17_AddingNeverLowers ==
  [][("added" \in DOMAIN last /\ last'.op = "analyze" /\ IsCompleted(last'.res))
       => \A category \in CategoriesOf(last.added) :
             last'.res.content_summary[category].relevance_score
               >= last.res.content_summary[category].relevance_score]_vars

(***************************************************************************)
(* SingletonSpec: concurrent callers of get_pdf_analyzer, one step each    *)
(* for the test, the construction, the assignment and the return.          *)
(***************************************************************************)
SingletonInit ==
  /\ fs \in {WithDir(f) : f \in [Paths -> Files]}
  /\ analyzer = NoAnalyzer
  /\ analysis_cache = Empty
  /\ documents_cache = Empty
  /\ last = Other("init", NoResult)
  /\ pc = [t \in Threads |-> "idle"]
  /\ calls = 0
  /\ loc = [t \in Threads |-> Locals("none", NoQuery, NoPath)]
  /\ env = 0
  /\ writer = 0
  /\ globals = NoGlobals

\* the call starts
StartGet(t) ==
  /\ CanStart(t)
  /\ calls' = calls + 1
  /\ Set(t, Locals("get_pdf_analyzer", NoQuery, NoPath))
  /\ Goto(t, "g_test")
  /\ UNCHANGED <<fs, analyzer, analysis_cache, documents_cache, last, env, writer, globals>>

\* if _pdf_analyzer is None
GTest(t) ==
  /\ pc[t] = "g_test"
  /\ Goto(t, IF analyzer = NoAnalyzer THEN "g_new" ELSE "g_return")
  /\ UNCHANGED <<fs, analyzer, analysis_cache, documents_cache, last, loc, calls, env, writer, globals>>

\* PDFAnalyzer(): a new instance, numbered by the call
GNew(t) ==
  /\ pc[t] = "g_new"
  /\ Set(t, [loc[t] EXCEPT !.res = loc[t].now])
  /\ Goto(t, "g_assign")
  /\ UNCHANGED <<fs, analyzer, analysis_cache, documents_cache, last, calls, env, writer, globals>>

\* _pdf_analyzer = the new instance, whose tables are empty
GAssign(t) ==
  /\ pc[t] = "g_assign"
  /\ analyzer' = loc[t].res
  /\ analysis_cache' = Empty
  /\ documents_cache' = Empty
  /\ Goto(t, "g_return")
  /\ UNCHANGED <<fs, last, loc, calls, env, writer, globals>>

\* return _pdf_analyzer
GReturn(t) ==
  /\ pc[t] = "g_return"
  /\ Return(t, loc[t], analyzer)
  /\ UNCHANGED <<fs, analyzer, analysis_cache, documents_cache, last, calls, env, writer, globals>>

GetStep(t) ==
  \/ StartGet(t)
  \/ GTest(t)
  \/ GNew(t)
  \/ GAssign(t)
  \/ GReturn(t)

SingletonNext == \E t \in Threads : GetStep(t)

SingletonSpec == SingletonInit /\ [][SingletonNext]_vars

\* the caller has its instance from get_pdf_analyzer
Received(t) == pc[t] = "idle" /\ loc[t].op = "get_pdf_analyzer"

\* C20: all callers of get_pdf_analyzer receive the same instance, whatever the
\* interleaving of their calls.
C20_SingleInstance ==
  \A t \in Threads, u \in Threads :
     (Received(t) /\ Received(u)) => loc[t].res = loc[u].res

(***************************************************************************)
(* Further claims checked under ConcSpec.                                  *)
(***************************************************************************)
\* the value is a result built to its end for the document and the query
FullyBuilt(path, query, r) ==
  /\ IsCompleted(r)
  /\ "source_file" \in DOMAIN r /\ r.source_file = path
  /\ "total_chunks" \in DOMAIN r /\ r.total_chunks \in Nat \ {0}
  /\ "content_summary" \in DOMAIN r
  /\ DOMAIN r.content_summary = CategoryNames
  /\ \A category \in CategoryNames :
        "relevance_score" \in DOMAIN r.content_summary[category]
  /\ "extracted_sections" \in DOMAIN r
  /\ query # NoQuery =>
        "query_analysis" \in DOMAIN r /\ r.query_analysis.query = query

\* C21: every value of the analysis table is a fully built result (completed, with
\* the source path, the chunk count, a score per category, the sections and, for a
\* query, the query analysis), and an entry changes only in one step in which a
\* caller stores the result it has built.
C21_WholeResults ==
  /\ [](\A k \in DOMAIN analysis_cache : FullyBuilt(k[1][1], k[2], analysis_cache[k]))
  /\ [][\A k \in (DOMAIN analysis_cache) \cap (DOMAIN analysis_cache') :
           analysis_cache'[k] # analysis_cache[k] =>
              \E t \in Threads :
                 /\ pc[t] = "a_write"
                 /\ analysis_cache'[k] = loc[t].res
                 /\ FullyBuilt(k[1][1], k[2], loc[t].res)]_vars

\* two callers have built a result for the same document and query, and the entry
\* of the first to write was replaced by that of the second
C21_Witness ==
  /\ \A t \in Threads : Returned(t) /\ ~loc[t].ahit /\ IsCompleted(loc[t].res)
  /\ loc[1].path = loc[2].path
  /\ loc[1].query = loc[2].query /\ loc[1].query # NoQuery
  /\ loc[1].res # loc[2].res
  /\ writer \in Threads
  /\ analysis_cache[QKey(writer)] = loc[writer].res

\* C25: an analyze call on a document that exists, is readable and has text returns
\* a completed result, whatever clear, stats and analyze calls of other callers
\* run at the same time.
C25_NeverFailsUnderConcurrency ==
  \A t \in Threads :
     (Returned(t) /\ loc[t].path # NoPath /\ CanLoad(fs, loc[t].path)
        /\ NumChunks(fs[loc[t].path].content) > 0)
       => IsCompleted(loc[t].res)

(***************************************************************************)
(* AppSpec: concurrent requests for the app (agent.py).  The requests are  *)
(* coroutines of one event loop: a step runs from one await to the next.   *)
(***************************************************************************)
AppInit ==
  /\ fs = OneDocument(NoText)
  /\ analyzer = NoAnalyzer
  /\ analysis_cache = Empty
  /\ documents_cache = Empty
  /\ last = Other("init", NoResult)
  /\ IdleThreads

\* what get_app() returns
App(instance) == [app |-> instance]

AppRest == <<fs, analyzer, analysis_cache, documents_cache, last, env, writer>>

\* the request returns or raises
AppReturn(t, l, res) ==
  /\ pc' = [pc EXCEPT ![t] = "idle"]
  /\ loc' = [loc EXCEPT ![t] = [l EXCEPT !.res = res]]

\* async with _app_init_semaphore, entered whatever the semaphore's value
AcquireSemaphore_no_wait(t, g, l) ==
  IF g.app_instance # NoApp
    THEN /\ globals' = g
         /\ AppReturn(t, l, App(g.app_instance))
    ELSE /\ globals' = [g EXCEPT !.app_init_semaphore = 0, !.app_init_started = TRUE]
         /\ pc' = [pc EXCEPT ![t] = "create"]
         /\ loc' = [loc EXCEPT ![t] = l]

\* async with _app_init_semaphore: wait while it is taken; then the second test of
\* _app_instance, and the start of create_app()
AcquireSemaphore(t, g, l) ==
  IF g.app_init_semaphore = 0
    THEN /\ globals' = g
         /\ pc' = [pc EXCEPT ![t] = "acquire"]
         /\ loc' = [loc EXCEPT ![t] = l]
  ELSE IF g.app_instance # NoApp
    THEN /\ globals' = g
         /\ AppReturn(t, l, App(g.app_instance))
    ELSE /\ globals' = [g EXCEPT !.app_init_semaphore = 0, !.app_init_started = TRUE]
         /\ pc' = [pc EXCEPT ![t] = "create"]
         /\ loc' = [loc EXCEPT ![t] = l]

\* app() and get_app() up to the first await that suspends
Request(t) ==
  /\ pc[t] = "idle"
  /\ calls < MaxRequests
  /\ calls' = calls + 1
  /\ LET g1 == IF ~globals.app_initialized_event /\ globals.app_instance # NoApp
                 THEN [globals EXCEPT !.app_initialized_event = TRUE]
                 ELSE globals
         g2 == [g1 EXCEPT !.app_init_count = @ + 1]
         l == [op |-> "app", request_id |-> g2.app_init_count, res |-> NoResult]
     IN IF g1.app_instance # NoApp
          THEN /\ globals' = g1
               /\ AppReturn(t, [l EXCEPT !.request_id = 0], App(g1.app_instance))
        ELSE IF g2.app_init_started
          THEN /\ globals' = g2
               /\ pc' = [pc EXCEPT ![t] = "wait_event"]
               /\ loc' = [loc EXCEPT ![t] = l]
        ELSE AcquireSemaphore(t, g2, l)
  /\ UNCHANGED AppRest

\* the semaphore is released to a request that waits for it
Acquire(t) ==
  /\ pc[t] = "acquire"
  /\ globals.app_init_semaphore > 0
  /\ AcquireSemaphore(t, globals, loc[t])
  /\ UNCHANGED <<AppRest, calls>>

\* _app_initialized_event.wait() returns
WaitEvent(t) ==
  /\ pc[t] = "wait_event"
  /\ globals.app_initialized_event
  /\ IF globals.app_instance # NoApp
       THEN /\ AppReturn(t, loc[t], App(globals.app_instance))
            /\ UNCHANGED globals
       ELSE AcquireSemaphore(t, globals, loc[t])
  /\ UNCHANGED <<AppRest, calls>>

\* asyncio.TimeoutError after 60 seconds: the request goes on to initialize
Timeout(t) ==
  /\ pc[t] = "wait_event"
  /\ AcquireSemaphore(t, globals, loc[t])
  /\ UNCHANGED <<AppRest, calls>>

\* create_app() returns the compiled app, numbered by the request
CreateOk(t) ==
  /\ pc[t] = "create"
  /\ globals' = [globals EXCEPT !.app_instance = loc[t].request_id,
                                !.app_initialized_event = TRUE,
                                !.app_init_started = FALSE,
                                !.app_init_semaphore = 1]
  /\ AppReturn(t, loc[t], App(loc[t].request_id))
  /\ UNCHANGED <<AppRest, calls>>

\* create_app() raises and the semaphore is not given back
CreateFail_keeps_semaphore(t) ==
  /\ pc[t] = "create"
  /\ globals' = [globals EXCEPT !.app_initialized_event = FALSE,
                                !.app_init_started = FALSE]
  /\ AppReturn(t, loc[t], Raised("create_app"))
  /\ UNCHANGED <<AppRest, calls>>

\* create_app() raises
CreateFail(t) ==
  /\ pc[t] = "create"
  /\ globals' = [globals EXCEPT !.app_initialized_event = FALSE,
                                !.app_init_started = FALSE,
                                !.app_init_semaphore = 1]
  /\ AppReturn(t, loc[t], Raised("create_app"))
  /\ UNCHANGED <<AppRest, calls>>

AppStep(t) ==
  \/ Request(t)
  \/ Acquire(t)
  \/ WaitEvent(t)
  \/ Timeout(t)
  \/ CreateOk(t)
  \/ CreateFail(t)

AppNext == \E t \in Threads : AppStep(t)

AppSpec == AppInit /\ [][AppNext]_vars

\* the requests in create_app()
Creating == {t \in Threads : pc[t] = "create"}

\* the request has returned an app
GotApp(t) == pc[t] = "idle" /\ loc[t] # NoResult /\ "app" \in DOMAIN loc[t].res

\* C22: at most one create_app() runs at a time, an app once made is never made
\* again, and every request that returns normally returns that one app.
C22_SingleInitialization ==
  /\ [](/\ Cardinality(Creating) <= 1
        /\ \A t \in Threads : GotApp(t) =>
              loc[t].res.app # NoApp /\ loc[t].res.app = globals.app_instance)
  /\ [][globals.app_instance # NoApp =>
          /\ globals'.app_instance = globals.app_instance
          /\ \A t \in Threads : pc'[t] # "create"]_vars

\* a request that found no app when it began has returned the app that another
\* request made meanwhile
C22_Witness ==
  \E t \in Threads :
     /\ GotApp(t)
     /\ loc[t].request_id # 0
     /\ loc[t].res.app # loc[t].request_id

\* AppSpec with the scheduling of the event loop: a request that waits for the event
\* goes on when it is set or after the 60 seconds, the semaphore wakes the requests
\* that wait for it in turn, and create_app() returns or raises
AppFairSpec ==
  /\ AppSpec
  /\ \A t \in Threads :
        /\ WF_vars(WaitEvent(t) \/ Timeout(t))
        /\ SF_vars(Acquire(t))
        /\ WF_vars(CreateOk(t) \/ CreateFail(t))

\* the request has raised
GotRaised(t) == pc[t] = "idle" /\ loc[t] # NoResult /\ IsRaised(loc[t].res)

\* C34: when create_app() raises, the flag of the initialization under way is reset
\* and the event stays cleared, and every request under way returns the app or
\* raises in the end.
C34_FailureDoesNotWedge ==
  /\ [][\A t \in Threads :
          (pc[t] = "create" /\ GotRaised(t)') =>
             ~globals'.app_init_started /\ ~globals'.app_initialized_event]_vars
  /\ \A t \in Threads : (pc[t] # "idle") ~> (GotApp(t) \/ GotRaised(t))

\* a request made after one that raised is in create_app()
C34_Witness ==
  \E t, u \in Threads :
     /\ GotRaised(t)
     /\ pc[u] = "create"
     /\ loc[u].request_id > loc[t].request_id

(***************************************************************************)
(* Further claims checked under EnvSpec.                                   *)
(***************************************************************************)
\* the keys under which the step stores a value in the table
Written(table, table2) ==
  {k \in DOMAIN table2 : k \notin DOMAIN table \/ table2[k] # table[k]}

\* C23: a step that stores an entry in the chunk table or in the analysis table
\* stores it under the key of the document's path and modification time as they
\* are at that step.
C23_WrittenUnderCurrentKey ==
  [][/\ \A k \in Written(documents_cache, documents_cache') :
          k = get_file_cache_key(fs, k[1])
     /\ \A k \in Written(analysis_cache, analysis_cache') :
          k[1] = get_file_cache_key(fs, k[1][1])]_vars

(***************************************************************************)
(* FreshSpec: concurrent callers while the document is rewritten, each     *)
(* rewrite with a modification time the path never had.  The text of the   *)
(* version with modification time m has m occurrences of "a", so a result  *)
(* shows the version it was computed from.                                 *)
(***************************************************************************)
VersionContent(m) == [readable |-> TRUE, pages |-> <<Repeat("a", m)>>]

FreshInit ==
  /\ fs = OneDocument(VersionContent(1))
  /\ analyzer = 1
  /\ \E W \in SUBSET Queries : \E w \in {Warm(fs, Empty, Empty, W)} :
       /\ analysis_cache = w.ac
       /\ documents_cache = w.dc
  /\ last = Other("init", NoResult)
  /\ pc = [t \in Threads |-> "idle"]
  /\ calls = 0
  /\ loc = [t \in Threads |-> Locals("none", NoQuery, NoPath)]
  /\ env = 0
  /\ writer = 0
  /\ globals = NoGlobals

\* the file is rewritten from outside while calls are under way
FreshWrite(p) ==
  /\ env < MaxEnv
  /\ fs[p].exists
  /\ fs' = [fs EXCEPT ![p] = [exists |-> TRUE, mtime |-> fs[p].mtime + 1,
                              content |-> VersionContent(fs[p].mtime + 1)]]
  /\ env' = env + 1
  /\ UNCHANGED <<analyzer, last, calls, pc, loc, Tables, globals>>

FreshNext ==
  \/ \E t \in Threads : Step(t)
  \/ \E t \in Threads : EvictStep(t)
  \/ FreshWrite(P1)

FreshSpec == FreshInit /\ [][FreshNext]_vars

\* the version of the file that the result was computed from
VersionOf(res) == res.content_summary["architecture"].relevance_score

\* C24: with a new modification time at every rewrite, a completed result that
\* analyze returns, from a table or not, was computed from the version of the file
\* that was current when the call computed its cache key, or from a later one.
C24_NeverOlderThanKey ==
  \A t \in Threads :
     (Returned(t) /\ IsCompleted(loc[t].res)) =>
        VersionOf(loc[t].res) >= loc[t].version

\* a call found its key in the analysis table, the file having been rewritten since
\* the key was computed, and returned a result of the new version
C24_Witness ==
  \E t \in Threads :
     /\ Returned(t) /\ IsCompleted(loc[t].res)
     /\ QKey(t) \in DOMAIN analysis_cache
     /\ VersionOf(loc[t].res) > loc[t].version

(***************************************************************************)
(* Further claims checked under Spec.                                      *)
(***************************************************************************)
\* C26: an analyze call that returns an error value leaves the analysis table as it
\* found it; the table never holds an error value, and a call served from the table
\* returns a completed result.
C26_ErrorsNotCached ==
  /\ [](/\ \A k \in DOMAIN analysis_cache : ~IsError(analysis_cache[k])
        /\ (last.op = "analyze" /\ last.ahit) => IsCompleted(last.res))
  /\ [][(last'.op = "analyze" /\ IsError(last'.res) /\ fs' = fs)
           => analysis_cache' = analysis_cache]_vars

C26_Witness ==
  /\ last.op = "analyze"
  /\ IsError(last.res)
  /\ last.res.error = "Processing failed"
  /\ analysis_cache # Empty

(***************************************************************************)
(* Further claims checked under ClassifySpec.                              *)
(***************************************************************************)
\* the chunks the last analysis worked on
LastChunks == documents_cache[CurrentKey(last.path)]

\* C27: in every category of a completed result, keyword_matches lists exactly the
\* keywords of the category that occur in the lowercased joined text of the chunks,
\* each with its count, in the order of the category's keyword list, and
\* relevance_score is the sum of the listed counts.
C27_MatchList ==
  (last.op = "analyze" /\ IsCompleted(last.res)) =>
     \A category \in CategoryNames :
        LET text == content_text(LastChunks)
            keywords == categories[category]
            score == last.res.content_summary[category]
            matches == score.keyword_matches
            found == {k \in 1..Len(keywords) : Count(keywords[k], text) > 0}
        IN /\ Len(matches) = Cardinality(found)
           /\ \A i \in 1..Len(matches) :
                 \E k \in found :
                    /\ Cardinality({j \in found : j <= k}) = i
                    /\ matches[i] = [keyword |-> keywords[k],
                                     count |-> Count(keywords[k], text)]
           /\ score.relevance_score
                = Sum([i \in 1..Len(matches) |-> matches[i].count])

\* a result with a category of which one keyword is found and another is not, and a
\* category with nothing found
C27_Witness ==
  /\ last.op = "analyze" /\ IsCompleted(last.res)
  /\ Len(last.res.content_summary["architecture"].keyword_matches) = 1
  /\ last.res.content_summary["architecture"].relevance_score >= 2
  /\ last.res.content_summary["methodology"].keyword_matches = <<>>
  /\ last.res.content_summary["methodology"].relevance_score = 0

(***************************************************************************)
(* SectionSpec: analyze_content on documents of many pages, each page one  *)
(* chunk: long or short, with or without the query, in either case.        *)
(***************************************************************************)
\* the two texts page n may hold
PageText(n, first) ==
  IF n % 2 = 1 THEN (IF first THEN <<"A", "x">> ELSE <<"x">>)
  ELSE (IF first THEN <<"a">> ELSE <<"x", "x">>)

ManyPages ==
  {[readable |-> TRUE, pages |-> [n \in 1..MaxPages |-> PageText(n, n \in S)]] :
     S \in SUBSET (1..MaxPages)}

SectionInit == Fresh(ManyPages)

SectionNext == \E q \in Queries : Analyze(NoId, q, Epoch)

SectionSpec == SectionInit /\ [][SectionNext]_vars

(***************************************************************************)
(* Claims checked under SectionSpec.                                       *)
(***************************************************************************)
\* the sections are those of the chunks 0..9 longer than 200 characters, in order,
\* each with the index, the length and the first 200 characters of its chunk,
\* followed by `mark`
SectionsAre(sections, chunks, mark) ==
  LET idx == {i \in 0..9 : /\ i < Len(chunks)
                            /\ Len(chunks[i + 1].page_content) > 200 \div Unit}
  IN /\ Len(sections) = Cardinality(idx)
     /\ Len(sections) <= 10
     /\ \A n \in 1..Len(sections) :
           \E i \in idx :
              /\ Cardinality({j \in idx : j <= i}) = n
              /\ sections[n].chunk_index = i
              /\ sections[n].length = Len(chunks[i + 1].page_content)
              /\ sections[n].preview
                   = Take(chunks[i + 1].page_content, 200 \div Unit) \o mark

\* C28 as stated: the sections of a completed result are those of the chunks 0..9
\* longer than 200 characters, in increasing order, at most 10, each with the
\* length of its chunk and a preview that is the first 200 characters of the chunk.
C28_SectionsPositional ==
  (last.op = "analyze" /\ IsCompleted(last.res)) =>
     SectionsAre(last.res.extracted_sections, LastChunks, <<>>)

\* C28 amended: the same, the preview being the first 200 characters of the chunk
\* followed by "...".
C28_SectionsWithEllipsis ==
  (last.op = "analyze" /\ IsCompleted(last.res)) =>
     SectionsAre(last.res.extracted_sections, LastChunks, <<"...">>)

\* a document of more than ten chunks, the eleventh long and left out, with long and
\* short chunks among the first ten
C28_Witness ==
  /\ last.op = "analyze" /\ IsCompleted(last.res)
  /\ last.res.total_chunks > 10
  /\ Len(LastChunks[11].page_content) > 200 \div Unit
  /\ Len(last.res.extracted_sections) \in 1..9
  /\ \A n \in 1..Len(last.res.extracted_sections) :
        last.res.extracted_sections[n].chunk_index # 10

\* the relevant chunks are all the chunks that contain the query, whatever the
\* case, in order, each with its index and its first 300 characters, followed by
\* `mark`
RelevantAre(relevant, chunks, query, mark) ==
  LET idx == {i \in 0..(Len(chunks) - 1) :
                Contains(Lower(chunks[i + 1].page_content), Lower(query))}
  IN /\ Len(relevant) = Cardinality(idx)
     /\ \A n \in 1..Len(relevant) :
           \E i \in idx :
              /\ Cardinality({j \in idx : j <= i}) = n
              /\ relevant[n].chunk_index = i
              /\ relevant[n].relevance_snippet
                   = Take(chunks[i + 1].page_content, 300 \div Unit) \o mark

\* a completed result has a query sub-result exactly when the query is not empty,
\* and it lists the chunks that contain the query
QueryResultIs(mark) ==
  (last.op = "analyze" /\ IsCompleted(last.res)) =>
     IF last.query = NoQuery
       THEN "query_analysis" \notin DOMAIN last.res
       ELSE /\ "query_analysis" \in DOMAIN last.res
            /\ last.res.query_analysis.query = last.query
            /\ RelevantAre(last.res.query_analysis.relevant_chunks, LastChunks,
                           last.query, mark)

NoState == [none_state |-> TRUE]

\* _lock held by nobody
Unlocked == 0

\* the dictionary initialize() stores
InitialState ==
  [pdf_analysis |-> NoResult, preprocessing_progress |-> Empty,
   current_agent_tasks |-> Empty, agent_results |-> Empty, handoff_context |-> Empty]

StateGlobals(lock, state) == [lock |-> lock, state |-> state]

AgentNames == {"data_agent", "env_agent"}
ResultData == {"7", "done"}

\* json.loads(result_data), and the string wrapped when it is not JSON
parsed_data(result_data) ==
  IF result_data = "7" THEN [json |-> 7] ELSE [result |-> result_data]

\* what the callers of update_state pass: dictionaries, and a value that is none
NewStates ==
  {[pdf_analysis |-> [json |-> 7]]}
    \cup {[agent_results |-> Put(Empty, <<a>>, parsed_data(d))] :
            a \in AgentNames, d \in ResultData}
    \cup {[not_a_dict |-> TRUE]}

\* dict.update: the keys of new_state replace those of the state
dict_update(state, new_state) ==
  [k \in DOMAIN state \cup DOMAIN new_state |->
     IF k \in DOMAIN new_state THEN new_state[k] ELSE state[k]]

\* the calls a caller may make
StateCalls ==
  {[op |-> "initialize"], [op |-> "get_state"]}
    \cup {[op |-> "update_state", new_state |-> n] : n \in NewStates}
    \cup {[op |-> "save_agent_result", agent_name |-> a, result_data |-> d] :
            a \in AgentNames, d \in ResultData}
    \cup {[op |-> "get_agent_result", agent_name |-> a] : a \in AgentNames}

StateInit ==
  /\ fs = OneDocument(NoText)
  /\ analyzer = NoAnalyzer
  /\ analysis_cache = Empty
  /\ documents_cache = Empty
  /\ last = Other("init", NoResult)
  /\ pc = [t \in Threads |-> "idle"]
  /\ loc = [t \in Threads |-> NoResult]
  /\ calls = 0
  /\ env = 0
  /\ writer = 0
  /\ globals = StateGlobals(Unlocked, NoState)

StateRest == <<fs, analyzer, analysis_cache, documents_cache, env, writer>>

\* a call begins: it is about to enter `with cls._lock`; `after` is the last
\* save_agent_result that had returned by then
StateCall(t) ==
  /\ pc[t] = "idle"
  /\ calls < MaxRequests
  /\ calls' = calls + 1
  /\ \E c \in StateCalls :
       /\ loc' = [loc EXCEPT ![t] = [call |-> c, res |-> NoResult, after |-> last]]
       /\ pc' = [pc EXCEPT ![t] = IF c.op = "initialize" THEN "init_lock" ELSE "lock"]
  /\ UNCHANGED <<StateRest, last, globals>>

\* with cls._lock of get_state and update_state: the lock is free and is taken
Lock(t) ==
  /\ pc[t] = "lock"
  /\ globals.lock = Unlocked
  /\ globals' = [globals EXCEPT !.lock = t]
  /\ pc' = [pc EXCEPT ![t] = "locked"]
  /\ UNCHANGED <<StateRest, last, loc, calls>>

\* what the tool makes of the copy get_state() returned
ToolResult(c, state) ==
  CASE c.op = "get_state" -> state
    [] c.op = "save_agent_result" ->
         ErrorValue("Error saving result")
    [] c.op = "get_agent_result" ->
         IF <<c.agent_name>> \in DOMAIN state.agent_results
           THEN state.agent_results[<<c.agent_name>>]
           ELSE ErrorValue("No results found for agent")

\* the body of get_state and update_state under the lock: initialize() is called
\* when the state is None, with the lock held; else the state is updated and
\* copied, the lock released and the call returns
Locked(t) ==
  /\ pc[t] = "locked"
  /\ LET c == loc[t].call
     IN IF globals.state = NoState
          THEN /\ pc' = [pc EXCEPT ![t] = "init_lock"]
               /\ UNCHANGED <<globals, loc, last>>
        ELSE IF c.op = "update_state"
          THEN \E s \in {IF "not_a_dict" \in DOMAIN c.new_state THEN globals.state
                         ELSE dict_update(globals.state, c.new_state)} :
                 /\ globals' = StateGlobals(Unlocked, s)
                 /\ loc' = [loc EXCEPT ![t].res = s]
                 /\ pc' = [pc EXCEPT ![t] = "idle"]
                 /\ UNCHANGED last
        ELSE /\ globals' = [globals EXCEPT !.lock = Unlocked]
             /\ loc' = [loc EXCEPT ![t].res = ToolResult(c, globals.state)]
             /\ pc' = [pc EXCEPT ![t] = "idle"]
             /\ last' = IF c.op = "save_agent_result"
                          THEN [op |-> c.op, agent_name |-> c.agent_name,
                                result_data |-> c.result_data]
                          ELSE last
  /\ UNCHANGED <<StateRest, calls>>

\* with cls._lock of initialize()
InitLock(t) ==
  /\ pc[t] = "init_lock"
  /\ globals.lock = Unlocked
  /\ globals' = [globals EXCEPT !.lock = t]
  /\ pc' = [pc EXCEPT ![t] = "init_body"]
  /\ UNCHANGED <<StateRest, last, loc, calls>>

\* the body of initialize(), called by itself
InitBody(t) ==
  /\ pc[t] = "init_body"
  /\ globals' = StateGlobals(Unlocked,
                             IF globals.state = NoState THEN InitialState
                             ELSE globals.state)
  /\ pc' = [pc EXCEPT ![t] = "idle"]
  /\ UNCHANGED <<StateRest, last, loc, calls>>

StateStep(t) ==
  \/ StateCall(t)
  \/ Lock(t)
  \/ Locked(t)
  \/ InitLock(t)
  \/ InitBody(t)

StateNext == \E t \in Threads : StateStep(t)

StateSpec == StateInit /\ [][StateNext]_vars

(***************************************************************************)
(* Claims checked under StateSpec.                                         *)
(***************************************************************************)
\* the caller waits for the lock it holds
SelfBlocked(t) == pc[t] = "init_lock" /\ globals.lock = t

\* C32: get_state() and update_state() called while the state is None initialize it
\* and return: no caller waits for the lock it holds itself.
C32_AlwaysReturns == \A t \in Threads : ~SelfBlocked(t)

\* C33: once save_agent_result(agent, data) has returned, the state holds the parsed
\* data as the result of the agent, and a get_agent_result(agent) that begins
\* afterwards, with no other save in between, returns it.
C33_ResultsRoundTrip ==
  /\ last.op = "save_agent_result" =>
        /\ globals.state # NoState
        /\ <<last.agent_name>> \in DOMAIN globals.state.agent_results
        /\ globals.state.agent_results[<<last.agent_name>>] = parsed_data(last.result_data)
  /\ \A t \in Threads :
        (/\ pc[t] = "idle" /\ loc[t] # NoResult
         /\ loc[t].call.op = "get_agent_result"
         /\ loc[t].after = last /\ last.op = "save_agent_result"
         /\ last.agent_name = loc[t].call.agent_name)
          => loc[t].res = parsed_data(last.result_data)

(***************************************************************************)
(* McpSpec: concurrent callers of MCPManager.initialize_all_servers        *)
(* (mcp_manager.py), coroutines of one event loop: a step runs from one    *)
(* await to the next.  What Docker and the servers answer is not in the    *)
(* program's hands: every status check and every connection has any of its *)
(* outcomes.  The four containers are cut down to two, and the             *)
(* configuration holds two servers.                                        *)
(***************************************************************************)
container_names == <<"mcp-sequential", "mcp-desktop-commander">>
ServerNames == <<"sequential", "desktop">>

\* max_wait and wait_interval of _wait_for_containers, in seconds
max_wait == 30
wait_interval == 2

\* what a server's entry of mcp.json says
ServerConfigs ==
  {[enabled |-> FALSE, container_name |-> TRUE],
   [enabled |-> TRUE, container_name |-> TRUE],
   [enabled |-> TRUE, container_name |-> FALSE]}

\* the entries of config["servers"], in the order of the file
Configs == [1..Len(ServerNames) -> ServerConfigs]

\* the servers the loop of _initialize_container_servers does not skip
RECURSIVE EnabledFrom(_, _)
EnabledFrom(config, i) ==
  IF i > Len(ServerNames) THEN <<>>
  ELSE (IF config[i].enabled THEN <<i>> ELSE <<>>) \o EnabledFrom(config, i + 1)

Enabled(config) == EnabledFrom(config, 1)

\* what docker_client.containers.get(name) and its status give
CheckOutcomes == {"running", "exited", "NotFound", "error"}

\* a polling round finds a running container: no check raised an error other than
\* NotFound, and one of the containers is running
RoundFinds(seen) ==
  /\ \A i \in 1..Len(container_names) : seen[i] # "error"
  /\ \E i \in 1..Len(container_names) : seen[i] = "running"

\* the tools client.get_tools() returns for a server
ToolsOf(i) == <<[tool |-> ServerNames[i]]>>

\* how a connection may end when the entry names a container
ConnectOutcomes == {"not_running", "timeout", "error", "connected"}

\* _connect_container_server: the tools returned
connect_container_server(i, server_config, outcome) ==
  IF ~server_config.container_name THEN <<>>
  ELSE IF outcome = "connected" THEN ToolsOf(i)
  ELSE <<>>

McpGlobals(config) ==
  [initialized |-> FALSE, init_lock |-> Unlocked, tools |-> Empty, config |-> config,
   connects |-> [i \in 1..Len(ServerNames) |-> 0]]

McpInit ==
  /\ fs = OneDocument(NoText)
  /\ analyzer = NoAnalyzer
  /\ analysis_cache = Empty
  /\ documents_cache = Empty
  /\ last = Other("init", NoResult)
  /\ pc = [t \in Threads |-> "idle"]
  /\ loc = [t \in Threads |-> NoResult]
  /\ calls = 0
  /\ env = 0
  /\ writer = 0
  /\ globals \in {McpGlobals(config) : config \in Configs}

McpRest == <<fs, analyzer, analysis_cache, documents_cache, last, env, writer>>

\* return self.tools
ReturnTools(t, l, tools) ==
  /\ pc' = [pc EXCEPT ![t] = "idle"]
  /\ loc' = [loc EXCEPT ![t] = [l EXCEPT !.res = [tools |-> tools]]]

\* initialize_all_servers up to its first await; `waited` tells that the call did
\* not find the manager initialized
McpCall(t) ==
  /\ pc[t] = "idle"
  /\ calls < MaxRequests
  /\ calls' = calls + 1
  /\ LET l == [op |-> "initialize_all_servers", res |-> NoResult, round |-> 0,
               seen |-> <<>>, found |-> FALSE, todo |-> <<>>, outcomes |-> Empty,
               waited |-> FALSE]
     IN IF globals.initialized
          THEN ReturnTools(t, l, globals.tools)
          ELSE /\ pc' = [pc EXCEPT ![t] = "init_lock"]
               /\ loc' = [loc EXCEPT ![t] = [l EXCEPT !.waited = TRUE]]
  /\ UNCHANGED <<McpRest, globals>>

\* async with self._init_lock with no second test of _initialized
McpLock_no_recheck(t) ==
  /\ pc[t] = "init_lock"
  /\ globals.init_lock = Unlocked
  /\ globals' = [globals EXCEPT !.init_lock = t]
  /\ pc' = [pc EXCEPT ![t] = "load"]
  /\ UNCHANGED loc
  /\ UNCHANGED <<McpRest, calls>>

\* async with self._init_lock, and the second test of _initialized
McpLock(t) ==
  /\ pc[t] = "init_lock"
  /\ globals.init_lock = Unlocked
  /\ IF globals.initialized
       THEN /\ ReturnTools(t, loc[t], globals.tools)
            /\ UNCHANGED globals
       ELSE /\ globals' = [globals EXCEPT !.init_lock = t]
            /\ pc' = [pc EXCEPT ![t] = "load"]
            /\ UNCHANGED loc
  /\ UNCHANGED <<McpRest, calls>>

\* load_config() returns the configuration: _wait_for_containers begins
LoadOk(t) ==
  /\ pc[t] = "load"
  /\ pc' = [pc EXCEPT ![t] = "wait"]
  /\ UNCHANGED <<McpRest, calls, globals, loc>>

\* load_config() raises: initialize_all_servers raises
LoadFail(t) ==
  /\ pc[t] = "load"
  /\ globals' = [globals EXCEPT !.init_lock = Unlocked]
  /\ pc' = [pc EXCEPT ![t] = "idle"]
  /\ loc' = [loc EXCEPT ![t].res = Raised("load_config")]
  /\ UNCHANGED <<McpRest, calls>>

\* _wait_for_containers has returned: the loop over the servers begins, and ends at
\* once when none is enabled
AfterWait(t, l) ==
  IF Enabled(globals.config) = <<>>
    THEN /\ globals' = [globals EXCEPT !.initialized = TRUE, !.init_lock = Unlocked]
         /\ ReturnTools(t, l, globals.tools)
    ELSE /\ pc' = [pc EXCEPT ![t] = "connect"]
         /\ loc' = [loc EXCEPT ![t] = [l EXCEPT !.todo = Enabled(globals.config)]]
         /\ UNCHANGED globals

\* a polling round that goes on to the sleep whatever the checks give
PollRound_never_finds(t) ==
  /\ pc[t] = "wait"
  /\ \E seen \in [1..Len(container_names) -> CheckOutcomes] :
       LET l == [loc[t] EXCEPT !.round = @ + 1, !.seen = seen, !.found = FALSE]
       IN IF l.round = max_wait \div wait_interval
            THEN AfterWait(t, l)
            ELSE /\ loc' = [loc EXCEPT ![t] = l]
                 /\ UNCHANGED <<pc, globals>>
  /\ UNCHANGED <<McpRest, calls>>

\* a polling round of _wait_for_containers: the checks, then the return or the sleep;
\* after the last sleep the loop ends
PollRound(t) ==
  /\ pc[t] = "wait"
  /\ \E seen \in [1..Len(container_names) -> CheckOutcomes] :
       LET l == [loc[t] EXCEPT !.round = @ + 1, !.seen = seen,
                               !.found = RoundFinds(seen)]
       IN IF RoundFinds(seen) \/ l.round = max_wait \div wait_interval
            THEN AfterWait(t, l)
            ELSE /\ loc' = [loc EXCEPT ![t] = l]
                 /\ UNCHANGED <<pc, globals>>
  /\ UNCHANGED <<McpRest, calls>>

\* a turn of the loop over the servers in which a failed connection raises
ConnectServer_raising(t) ==
  /\ pc[t] = "connect"
  /\ \E outcome \in ConnectOutcomes :
       LET i == Head(loc[t].todo)
           tools == Put(globals.tools, <<ServerNames[i]>>,
                        connect_container_server(i, globals.config[i], outcome))
           l == [loc[t] EXCEPT !.todo = Tail(@),
                               !.outcomes = Put(@, <<ServerNames[i]>>,
                                                IF globals.config[i].container_name
                                                  THEN outcome ELSE "no_container_name")]
           g == [globals EXCEPT !.tools = tools, !.connects[i] = @ + 1]
       IN IF outcome # "connected"
            THEN /\ globals' = [globals EXCEPT !.init_lock = Unlocked]
                 /\ pc' = [pc EXCEPT ![t] = "idle"]
                 /\ loc' = [loc EXCEPT ![t] = [l EXCEPT !.res = Raised(outcome)]]
          ELSE IF l.todo = <<>>
            THEN /\ globals' = [g EXCEPT !.initialized = TRUE, !.init_lock = Unlocked]
                 /\ ReturnTools(t, l, tools)
            ELSE /\ globals' = g
                 /\ loc' = [loc EXCEPT ![t] = l]
                 /\ UNCHANGED pc
  /\ UNCHANGED <<McpRest, calls>>

\* one turn of the loop over the servers: _connect_container_server and the entry
\* of tools; after the last server _initialized is set and the tools are returned
ConnectServer(t) ==
  /\ pc[t] = "connect"
  /\ \E outcome \in ConnectOutcomes :
       LET i == Head(loc[t].todo)
           tools == Put(globals.tools, <<ServerNames[i]>>,
                        connect_container_server(i, globals.config[i], outcome))
           l == [loc[t] EXCEPT !.todo = Tail(@),
                               !.outcomes = Put(@, <<ServerNames[i]>>,
                                                IF globals.config[i].container_name
                                                  THEN outcome ELSE "no_container_name")]
           g == [globals EXCEPT !.tools = tools, !.connects[i] = @ + 1]
       IN IF l.todo = <<>>
            THEN /\ globals' = [g EXCEPT !.initialized = TRUE, !.init_lock = Unlocked]
                 /\ ReturnTools(t, l, tools)
            ELSE /\ globals' = g
                 /\ loc' = [loc EXCEPT ![t] = l]
                 /\ UNCHANGED pc
  /\ UNCHANGED <<McpRest, calls>>

McpStep(t) ==
  \/ McpCall(t)
  \/ McpLock(t)
  \/ LoadOk(t)
  \/ LoadFail(t)
  \/ PollRound(t)
  \/ ConnectServer(t)

McpNext == \E t \in Threads : McpStep(t)

McpSpec == McpInit /\ [][McpNext]_vars

(***************************************************************************)
(* Claims checked under McpSpec.                                           *)
(***************************************************************************)
\* the call has returned the tools
GotTools(t) == pc[t] = "idle" /\ loc[t] # NoResult /\ "tools" \in DOMAIN loc[t].res

\* the calls between load_config() and the return
Initializing == {t \in Threads : pc[t] \in {"load", "wait", "connect"}}

\* C35: at most one call initializes at a time, no server is connected twice, every
\* call that returns returns the one tools mapping, and _initialized is true only
\* when every enabled server has its entry in tools.
C35_InitializedOnce ==
  /\ Cardinality(Initializing) <= 1
  /\ \A i \in 1..Len(ServerNames) : globals.connects[i] <= 1
  /\ \A t \in Threads :
        GotTools(t) => globals.initialized /\ loc[t].res.tools = globals.tools
  /\ globals.initialized =>
        \A i \in 1..Len(ServerNames) :
           globals.config[i].enabled => <<ServerNames[i]>> \in DOMAIN globals.tools

\* a call that waited for the lock while another initialized has returned the tools
\* the other connected
C35_Witness ==
  \E t, u \in Threads :
     /\ GotTools(t) /\ loc[t].outcomes # Empty
     /\ GotTools(u) /\ loc[u].waited /\ loc[u].outcomes = Empty
     /\ \E i \in 1..Len(ServerNames) :
           /\ <<ServerNames[i]>> \in DOMAIN loc[u].res.tools
           /\ loc[u].res.tools[<<ServerNames[i]>>] # <<>>

\* C36: a server whose connection fails gets the empty tool list, the other enabled
\* servers get their tools, and the call that connects never raises: it returns with
\* the manager initialized.
C36_FailureIsolated ==
  /\ [](\A t \in Threads :
          (GotTools(t) /\ loc[t].outcomes # Empty) =>
             /\ globals.initialized
             /\ \A i \in 1..Len(ServerNames) :
                   globals.config[i].enabled =>
                      /\ <<ServerNames[i]>> \in DOMAIN loc[t].outcomes
                      /\ <<ServerNames[i]>> \in DOMAIN loc[t].res.tools
                      /\ loc[t].res.tools[<<ServerNames[i]>>]
                           = IF loc[t].outcomes[<<ServerNames[i]>>] = "connected"
                               THEN <<[tool |-> ServerNames[i]]>> ELSE <<>>)
  /\ [][\A t \in Threads :
          pc[t] = "connect" => (pc'[t] = "connect" \/ GotTools(t)')]_vars

\* the connection of the first server timed out and the second server got its tools
C36_Witness ==
  \E t \in Threads :
     /\ GotTools(t)
     /\ DOMAIN loc[t].outcomes = {<<ServerNames[1]>>, <<ServerNames[2]>>}
     /\ loc[t].outcomes[<<ServerNames[1]>>] = "timeout"
     /\ loc[t].res.tools[<<ServerNames[1]>>] = <<>>
     /\ loc[t].res.tools[<<ServerNames[2]>>] # <<>>

\* the wait is over after at most 15 rounds, and earlier only when a round found
\* a running container
WaitIsBounded(t) ==
  /\ loc[t].round <= 15
  /\ pc[t] = "wait" => loc[t].round < 15
  /\ (pc[t] # "wait" /\ loc[t].round > 0 /\ loc[t].round < 15) =>
        \E i \in 1..Len(container_names) : loc[t].seen[i] = "running"

\* C37 as stated: _wait_for_containers returns in the first round in which one of
\* the containers is running, and after 15 rounds at the latest.
C37_WaitReturnsWhenRunning ==
  \A t \in Threads :
     (loc[t] # NoResult /\ "round" \in DOMAIN loc[t]) =>
        /\ WaitIsBounded(t)
        /\ (pc[t] = "wait" /\ loc[t].round > 0) =>
              \A i \in 1..Len(container_names) : loc[t].seen[i] # "running"

\* C37 amended: _wait_for_containers returns in the first round in which no status
\* check raises an error other than NotFound and one of the containers is running,
\* and after 15 rounds at the latest.
C37_WaitReturnsWhenFound ==
  \A t \in Threads :
     (loc[t] # NoResult /\ "round" \in DOMAIN loc[t]) =>
        /\ WaitIsBounded(t)
        /\ (pc[t] = "wait" /\ loc[t].round > 0) =>
              \/ \E i \in 1..Len(container_names) : loc[t].seen[i] = "error"
              \/ \A i \in 1..Len(container_names) : loc[t].seen[i] # "running"
        /\ (pc[t] # "wait" /\ loc[t].round > 0 /\ loc[t].round < 15) =>
              \A i \in 1..Len(container_names) : loc[t].seen[i] # "error"

\* the wait has gone through its 15 rounds, the last with a container running and
\* a check that raised, and the initialization has gone on
C37_Witness ==
  \E t \in Threads :
     /\ pc[t] = "connect"
     /\ loc[t].round = 15
     /\ loc[t].seen = <<"running", "error">>

====
